---- MODULE Spec2Model ----
(***************************************************************************)
(* A model of the red-black tree of package redblacktree (lemonyxk/gods)   *)
(* and of its iterator.                                                    *)
(*                                                                         *)
(* Nodes live in an arena `node`: a function from handles to node records. *)
(* A Go pointer is a handle, the nil pointer is Nil, which is outside the  *)
(* arena's domain, so that a nil dereference (a Go panic) is an            *)
(* evaluation error that stops the model checker.                          *)
(* Every operation of the tree is an operator from a tree record           *)
(* [Root, size, node] to the tree record after the call, translated        *)
(* statement by statement; the actions apply them to the variables.        *)
(*                                                                         *)
(* The containers built on the tree or beside it (treebidimap,             *)
(* hashbidimap, avltree, linkedhashmap, the extended red-black tree of the *)
(* examples and GetSortedValues) follow, each with a specification of its  *)
(* own.                                                                    *)
(***************************************************************************)
EXTENDS Integers, Sequences, FiniteSets, TLC

\* Bounds of the model. Under Spec the keys put and removed are 0..MaxKey and
\* every value is "x", so that the trees grow deep enough for the fix-ups to
\* recurse; under SpecValues the keys are 0..MaxValueKey and a Put chooses
\* between two values. Under SpecIterator, where the iterator moves, the keys
\* are 0..MaxIteratorKey; under SpecTrip, where distinct keys are put and then
\* removed, they are 0..MaxTripKey; under SpecUnder, where the tree is changed
\* under an iterator that is on a node, they are 0..MaxUnderKey.
MaxKey == 7
MaxValueKey == 4
MaxIteratorKey == 5
MaxTripKey == 6
MaxUnderKey == 2

\* Tree[int, string] under utils.IntComparator.
KeySet == 0..MaxKey
ValueKeySet == 0..MaxValueKey
IteratorKeySet == 0..MaxIteratorKey
TripKeySet == 0..MaxTripKey
UnderKeySet == 0..MaxUnderKey

\* The keys queried: those of KeySet, one below and one above.
QuerySet == (0 - 1)..(MaxKey + 1)

\* utils.AnyEmpty[P](): the zero value of the value type.
AnyEmpty == ""

\* The values put under SpecValues: the zero value and another one.
ValueSet == {AnyEmpty, "x"}

\* The arena holds one node per key and one spare.
Handles == 1..(MaxKey + 2)

\* The nil pointer.
Nil == 0

\* type color bool
black == TRUE
red == FALSE

\* utils.IntComparator: negative, zero or positive.
Comparator(a, b) == IF a < b THEN -1 ELSE IF a > b THEN 1 ELSE 0

VARIABLES
  Root,   \* Tree.Root: a handle or Nil
  size,   \* Tree.size
  node,   \* the arena: handle -> [Key, Value, color, Left, Right, Parent]
  M,      \* the abstract finite map stepped side by side with the tree
  last,   \* the last operation called: its name, whether its key was in the tree,
          \* and for Remove the number of children of the key's node, whether
          \* the node unlinked was black (the deletion fix-up ran) and whether
          \* it was black with a child; for a call on the iterator the
          \* position it was called at and what it returned
  iterator, \* one Iterator of the tree: [node, position]
  run,    \* the keys visited by the successive Next calls made since the
          \* iterator was last one-before-first (fwd) and by the successive
          \* Prev calls made since it was last one-past-the-end (bwd), with
          \* the tree unchanged since; fwdOn and bwdOn tell which is running
  trip,   \* under SpecTrip: whether a Remove has been called, and the number
          \* of keys put
  treebidimap,   \* a treebidimap.Map: [forwardMap, inverseMap], two trees
  hashbidimap,   \* a hashbidimap.Map: [forwardMap, inverseMap], two hash maps
  avl,           \* an avltree.Tree: [Root, size, node]
  linkedhashmap, \* a linkedhashmap.Map: [table, ordering]
  container,     \* a container and what GetSortedValues returned for it
  call    \* the last call made on one of the five containers above: its
          \* name, its arguments and the container before the call

\* The red-black tree, its iterator and their history.
redblack == <<Root, size, node, M, last, iterator, run, trip>>

\* The containers built on the tree or beside it.
containers == <<treebidimap, hashbidimap, avl, linkedhashmap, container, call>>

vars == <<Root, size, node, M, last, iterator, run, trip,
          treebidimap, hashbidimap, avl, linkedhashmap, container, call>>

\* The tree as the operations see it.
Tree == [Root |-> Root, size |-> size, node |-> node]

\* &Node{Key: key, Value: value, color: red}
NewNode(key, value) ==
  [Key |-> key, Value |-> value, color |-> red, Left |-> Nil, Right |-> Nil, Parent |-> Nil]

\* Memory no pointer refers to.
FreeNode ==
  [Key |-> 0, Value |-> AnyEmpty, color |-> red, Left |-> Nil, Right |-> Nil, Parent |-> Nil]

\* The nodes a pointer keeps alive, in the order a walk from it through Left,
\* Right and Parent meets them (`todo` is the stack of the walk).
\* (Every value used more than once is bound by a quantifier over a one-element
\* set, here and in LiveSet, Alloc, Collect and Store: it is computed once.)
RECURSIVE Walk(_, _, _)
Walk(t, todo, seen) ==
  IF todo = << >> THEN seen
  ELSE CHOOSE w \in
         {IF n = Nil \/ \E i \in 1..Len(seen) : seen[i] = n
          THEN Walk(t, rest, seen)
          ELSE CHOOSE v \in
                 {Walk(t, next, more) :
                    next \in {<<t.node[n].Left, t.node[n].Right, t.node[n].Parent>> \o rest},
                    more \in {Append(seen, n)}} : TRUE
            : n \in {Head(todo)}, rest \in {Tail(todo)}} : TRUE

\* The nodes the tree keeps alive.
Live(t) == Walk(t, <<t.Root>>, << >>)

LiveSet(t) == UNION {{live[i] : i \in 1..Len(live)} : live \in {Live(t)}}

\* The handle a fresh allocation returns: the lowest one that is not alive.
Alloc(t) ==
  CHOOSE h \in UNION {{f \in free : \A g \in free : f <= g} : free \in {Handles \ LiveSet(t)}} : TRUE

\* Allocation and garbage collection. The address of a node is not observable
\* (pointers are only compared with each other), so after each call the live
\* nodes are the handles 1..n in the order of the walk from the root, and a
\* node nothing refers to is memory again.
Collect(t) ==
  CHOOSE c \in
    {LET to(h) == IF h = Nil THEN Nil ELSE CHOOSE i \in 1..Len(live) : live[i] = h
     IN [Root |-> to(t.Root),
         size |-> t.size,
         node |-> [h \in Handles |->
                     IF h <= Len(live)
                     THEN [t.node[live[h]] EXCEPT !.Left = to(@), !.Right = to(@), !.Parent = to(@)]
                     ELSE FreeNode]] : live \in {Live(t)}} : TRUE

nodeColor(t, n) == IF n = Nil THEN black ELSE t.node[n].color

grandparent(t, n) ==
  IF n # Nil /\ t.node[n].Parent # Nil THEN t.node[t.node[n].Parent].Parent ELSE Nil

sibling(t, n) ==
  IF n = Nil \/ t.node[n].Parent = Nil THEN Nil
  ELSE IF n = t.node[t.node[n].Parent].Left THEN t.node[t.node[n].Parent].Right
  ELSE t.node[t.node[n].Parent].Left

uncle(t, n) ==
  IF n = Nil \/ t.node[n].Parent = Nil \/ t.node[t.node[n].Parent].Parent = Nil THEN Nil
  ELSE sibling(t, t.node[n].Parent)

RECURSIVE lookupFrom(_, _, _)
lookupFrom(t, n, key) ==
  IF n = Nil THEN Nil
  ELSE LET compare == Comparator(key, t.node[n].Key)
       IN IF compare = 0 THEN n
          ELSE IF compare < 0 THEN lookupFrom(t, t.node[n].Left, key)
          ELSE lookupFrom(t, t.node[n].Right, key)

lookup(t, key) == lookupFrom(t, t.Root, key)

\* Mutant: replacing the root does not update Tree.Root.
replaceNode_rootKept(t, old, new) ==
  LET t1 == IF t.node[old].Parent = Nil THEN t
            ELSE IF old = t.node[t.node[old].Parent].Left
                 THEN [t EXCEPT !.node[t.node[old].Parent].Left = new]
                 ELSE [t EXCEPT !.node[t.node[old].Parent].Right = new]
  IN IF new # Nil THEN [t1 EXCEPT !.node[new].Parent = t1.node[old].Parent] ELSE t1

replaceNode(t, old, new) ==
  LET t1 == IF t.node[old].Parent = Nil THEN [t EXCEPT !.Root = new]
            ELSE IF old = t.node[t.node[old].Parent].Left
                 THEN [t EXCEPT !.node[t.node[old].Parent].Left = new]
                 ELSE [t EXCEPT !.node[t.node[old].Parent].Right = new]
  IN IF new # Nil THEN [t1 EXCEPT !.node[new].Parent = t1.node[old].Parent] ELSE t1

\* Mutant: the subtree that changes sides keeps its old parent.
rotateLeft_parentKept(t, n) ==
  LET right == t.node[n].Right
      t1 == replaceNode(t, n, right)
      t2 == [t1 EXCEPT !.node[n].Right = t1.node[right].Left]
      t4 == [t2 EXCEPT !.node[right].Left = n]
  IN [t4 EXCEPT !.node[n].Parent = right]

\* Mutant: the node that goes down keeps its old parent.
rotateLeft_nodeParentKept(t, n) ==
  LET right == t.node[n].Right
      t1 == replaceNode(t, n, right)
      t2 == [t1 EXCEPT !.node[n].Right = t1.node[right].Left]
      t3 == IF t2.node[right].Left # Nil
            THEN [t2 EXCEPT !.node[t2.node[right].Left].Parent = n] ELSE t2
  IN [t3 EXCEPT !.node[right].Left = n]

rotateLeft(t, n) ==
  LET right == t.node[n].Right
      t1 == replaceNode(t, n, right)
      t2 == [t1 EXCEPT !.node[n].Right = t1.node[right].Left]
      t3 == IF t2.node[right].Left # Nil
            THEN [t2 EXCEPT !.node[t2.node[right].Left].Parent = n] ELSE t2
      t4 == [t3 EXCEPT !.node[right].Left = n]
  IN [t4 EXCEPT !.node[n].Parent = right]

rotateRight(t, n) ==
  LET left == t.node[n].Left
      t1 == replaceNode(t, n, left)
      t2 == [t1 EXCEPT !.node[n].Left = t1.node[left].Right]
      t3 == IF t2.node[left].Right # Nil
            THEN [t2 EXCEPT !.node[t2.node[left].Right].Parent = n] ELSE t2
      t4 == [t3 EXCEPT !.node[left].Right = n]
  IN [t4 EXCEPT !.node[n].Parent = left]

insertCase5(t, n) ==
  LET t1 == [t EXCEPT !.node[t.node[n].Parent].color = black]
      gp == grandparent(t1, n)
      t2 == [t1 EXCEPT !.node[gp].color = red]
      p == t2.node[n].Parent
  IN IF n = t2.node[p].Left /\ p = t2.node[gp].Left THEN rotateRight(t2, gp)
     ELSE IF n = t2.node[p].Right /\ p = t2.node[gp].Right THEN rotateLeft(t2, gp)
     ELSE t2

insertCase4(t, n) ==
  LET gp == grandparent(t, n)
      p == t.node[n].Parent
  IN IF n = t.node[p].Right /\ p = t.node[gp].Left
     THEN LET t1 == rotateLeft(t, p) IN insertCase5(t1, t1.node[n].Left)
     ELSE IF n = t.node[p].Left /\ p = t.node[gp].Right
     THEN LET t1 == rotateRight(t, p) IN insertCase5(t1, t1.node[n].Right)
     ELSE insertCase5(t, n)

RECURSIVE insertCase1(_, _)

insertCase3(t, n) ==
  LET u == uncle(t, n)
  IN IF nodeColor(t, u) = red
     THEN LET t1 == [t EXCEPT !.node[t.node[n].Parent].color = black]
              t2 == [t1 EXCEPT !.node[u].color = black]
              t3 == [t2 EXCEPT !.node[grandparent(t2, n)].color = red]
          IN insertCase1(t3, grandparent(t3, n))
     ELSE insertCase4(t, n)

\* Mutant: the fix-up stops at the parent whatever its colour.
insertCase2_noFixup(t, n) == t

insertCase2(t, n) ==
  IF nodeColor(t, t.node[n].Parent) = black THEN t ELSE insertCase3(t, n)

\* Mutant: a node that has no parent keeps the colour it was created with.
insertCase1_rootRed(t, n) ==
  IF t.node[n].Parent = Nil THEN t ELSE insertCase2(t, n)

insertCase1(t, n) ==
  IF t.node[n].Parent = Nil THEN [t EXCEPT !.node[n].color = black]
  ELSE insertCase2(t, n)

\* The descent loop of Put: the node it stops at and the comparison there.
RECURSIVE descend(_, _, _)
descend(t, n, key) ==
  LET compare == Comparator(key, t.node[n].Key)
  IN IF compare = 0 THEN [at |-> n, compare |-> compare]
     ELSE IF compare < 0
     THEN IF t.node[n].Left = Nil THEN [at |-> n, compare |-> compare]
          ELSE descend(t, t.node[n].Left, key)
     ELSE IF t.node[n].Right = Nil THEN [at |-> n, compare |-> compare]
          ELSE descend(t, t.node[n].Right, key)

\* Mutant: a Put of a key that is in the tree counts as an insertion.
overwrite_counted(t, n, key, value) ==
  [t EXCEPT !.node[n].Key = key, !.node[n].Value = value, !.size = @ + 1]

\* Mutant: the node that is overwritten is made red, as an inserted node is.
overwrite_recoloured(t, n, key, value) ==
  [t EXCEPT !.node[n].Key = key, !.node[n].Value = value, !.node[n].color = red]

\* Put, lines 78-81: the key is in the tree already.
overwrite(t, n, key, value) ==
  [t EXCEPT !.node[n].Key = key, !.node[n].Value = value]

Put(t, key, value) ==
  IF t.Root = Nil
  THEN LET insertedNode == Alloc(t)
           t1 == [t EXCEPT !.node[insertedNode] = NewNode(key, value), !.Root = insertedNode]
           t2 == insertCase1(t1, insertedNode)
       IN [t2 EXCEPT !.size = @ + 1]
  ELSE LET d == descend(t, t.Root, key)
       IN IF d.compare = 0
          THEN overwrite(t, d.at, key, value)
          ELSE LET insertedNode == Alloc(t)
                   t1 == [t EXCEPT !.node[insertedNode] = NewNode(key, value)]
                   t2 == IF d.compare < 0 THEN [t1 EXCEPT !.node[d.at].Left = insertedNode]
                         ELSE [t1 EXCEPT !.node[d.at].Right = insertedNode]
                   t3 == [t2 EXCEPT !.node[insertedNode].Parent = d.at]
                   t4 == insertCase1(t3, insertedNode)
               IN [t4 EXCEPT !.size = @ + 1]

Get(t, key) ==
  LET n == lookup(t, key)
  IN IF n # Nil THEN [value |-> t.node[n].Value, found |-> TRUE]
     ELSE [value |-> AnyEmpty, found |-> FALSE]

\* Mutant: the predecessor is taken to be the left child itself.
maximumNode_noDescent(t, n) == n

RECURSIVE maximumNode(_, _)
maximumNode(t, n) ==
  IF n = Nil THEN Nil
  ELSE IF t.node[n].Right # Nil THEN maximumNode(t, t.node[n].Right)
  ELSE n

deleteCase6(t, n) ==
  LET s == sibling(t, n)
      t1 == [t EXCEPT !.node[s].color = nodeColor(t, t.node[n].Parent)]
      t2 == [t1 EXCEPT !.node[t1.node[n].Parent].color = black]
      p == t2.node[n].Parent
  IN IF n = t2.node[p].Left /\ nodeColor(t2, t2.node[s].Right) = red
     THEN rotateLeft([t2 EXCEPT !.node[t2.node[s].Right].color = black], p)
     ELSE IF nodeColor(t2, t2.node[s].Left) = red
     THEN rotateRight([t2 EXCEPT !.node[t2.node[s].Left].color = black], p)
     ELSE t2

deleteCase5(t, n) ==
  LET s == sibling(t, n)
      p == t.node[n].Parent
  IN IF /\ n = t.node[p].Left
        /\ nodeColor(t, s) = black
        /\ nodeColor(t, t.node[s].Left) = red
        /\ nodeColor(t, t.node[s].Right) = black
     THEN LET t1 == [t EXCEPT !.node[s].color = red]
              t2 == [t1 EXCEPT !.node[t1.node[s].Left].color = black]
          IN deleteCase6(rotateRight(t2, s), n)
     ELSE IF /\ n = t.node[p].Right
             /\ nodeColor(t, s) = black
             /\ nodeColor(t, t.node[s].Right) = red
             /\ nodeColor(t, t.node[s].Left) = black
     THEN LET t1 == [t EXCEPT !.node[s].color = red]
              t2 == [t1 EXCEPT !.node[t1.node[s].Right].color = black]
          IN deleteCase6(rotateLeft(t2, s), n)
     ELSE deleteCase6(t, n)

\* Mutant: the red parent is not made black when the sibling is made red.
deleteCase4_parentKept(t, n) ==
  LET s == sibling(t, n)
  IN IF /\ nodeColor(t, t.node[n].Parent) = red
        /\ nodeColor(t, s) = black
        /\ nodeColor(t, t.node[s].Left) = black
        /\ nodeColor(t, t.node[s].Right) = black
     THEN [t EXCEPT !.node[s].color = red]
     ELSE deleteCase5(t, n)

deleteCase4(t, n) ==
  LET s == sibling(t, n)
  IN IF /\ nodeColor(t, t.node[n].Parent) = red
        /\ nodeColor(t, s) = black
        /\ nodeColor(t, t.node[s].Left) = black
        /\ nodeColor(t, t.node[s].Right) = black
     THEN LET t1 == [t EXCEPT !.node[s].color = red]
          IN [t1 EXCEPT !.node[t1.node[n].Parent].color = black]
     ELSE deleteCase5(t, n)

RECURSIVE deleteCase1(_, _)

\* Mutant: the sibling is not recoloured before the fix-up moves to the parent.
deleteCase3_noRecolour(t, n) ==
  LET s == sibling(t, n)
  IN IF /\ nodeColor(t, t.node[n].Parent) = black
        /\ nodeColor(t, s) = black
        /\ nodeColor(t, t.node[s].Left) = black
        /\ nodeColor(t, t.node[s].Right) = black
     THEN deleteCase1(t, t.node[n].Parent)
     ELSE deleteCase4(t, n)

deleteCase3(t, n) ==
  LET s == sibling(t, n)
  IN IF /\ nodeColor(t, t.node[n].Parent) = black
        /\ nodeColor(t, s) = black
        /\ nodeColor(t, t.node[s].Left) = black
        /\ nodeColor(t, t.node[s].Right) = black
     THEN deleteCase1([t EXCEPT !.node[s].color = red], t.node[n].Parent)
     ELSE deleteCase4(t, n)

deleteCase2(t, n) ==
  LET s == sibling(t, n)
  IN IF nodeColor(t, s) = red
     THEN LET t1 == [t EXCEPT !.node[t.node[n].Parent].color = red]
              t2 == [t1 EXCEPT !.node[s].color = black]
          IN IF n = t2.node[t2.node[n].Parent].Left
             THEN deleteCase3(rotateLeft(t2, t2.node[n].Parent), n)
             ELSE deleteCase3(rotateRight(t2, t2.node[n].Parent), n)
     ELSE deleteCase3(t, n)

deleteCase1(t, n) ==
  IF t.node[n].Parent = Nil THEN t ELSE deleteCase2(t, n)

\* Mutant: the node taken out of the tree has its links cleared.
unlink_cleared(t, n) ==
  IF t.node[n].Left = Nil \/ t.node[n].Right = Nil
  THEN LET child == IF t.node[n].Right = Nil THEN t.node[n].Left ELSE t.node[n].Right
           t1 == IF t.node[n].color = black
                 THEN deleteCase1([t EXCEPT !.node[n].color = nodeColor(t, child)], n)
                 ELSE t
           t2 == replaceNode(t1, n, child)
           t3 == IF t2.node[n].Parent = Nil /\ child # Nil
                 THEN [t2 EXCEPT !.node[child].color = black]
                 ELSE t2
       IN [t3 EXCEPT !.node[n].Parent = Nil, !.node[n].Left = Nil, !.node[n].Right = Nil]
  ELSE t

\* Remove, lines 131-145: unlink a node that has at most one child. (t2, the
\* tree after replaceNode, is bound by a one-element set: it is computed once.)
unlink(t, n) ==
  IF t.node[n].Left = Nil \/ t.node[n].Right = Nil
  THEN LET child == IF t.node[n].Right = Nil THEN t.node[n].Left ELSE t.node[n].Right
           t1 == IF t.node[n].color = black
                 THEN deleteCase1([t EXCEPT !.node[n].color = nodeColor(t, child)], n)
                 ELSE t
       IN CHOOSE t3 \in {IF t2.node[n].Parent = Nil /\ child # Nil
                         THEN [t2 EXCEPT !.node[child].color = black]
                         ELSE t2 : t2 \in {replaceNode(t1, n, child)}} : TRUE
  ELSE t

\* Mutant: `node = pred` is left out, the node found stays the node to unlink.
victim_kept(t, n) == n

\* Remove, lines 125-130: the node to unlink, which is the predecessor of a
\* node that has two children.
victim(t, n) ==
  IF t.node[n].Left # Nil /\ t.node[n].Right # Nil
  THEN maximumNode(t, t.node[n].Left)
  ELSE n

\* Mutant: the node takes the key of its predecessor and keeps its own value.
takePred_keyOnly(t, n) ==
  IF t.node[n].Left # Nil /\ t.node[n].Right # Nil
  THEN [t EXCEPT !.node[n].Key = t.node[maximumNode(t, t.node[n].Left)].Key]
  ELSE t

\* Remove, lines 126-128: a node that has two children takes the key and the
\* value of its predecessor.
takePred(t, n) ==
  IF t.node[n].Left # Nil /\ t.node[n].Right # Nil
  THEN LET pred == maximumNode(t, t.node[n].Left)
           t1 == [t EXCEPT !.node[n].Key = t.node[pred].Key]
       IN [t1 EXCEPT !.node[n].Value = t1.node[pred].Value]
  ELSE t

\* Remove, lines 125-146: the key is in the tree, at node n.
removeNode(t, n) ==
  LET t1 == unlink(takePred(t, n), victim(t, n))
  IN [t1 EXCEPT !.size = @ - 1]

\* Mutant: the size is decremented before the key is looked up.
Remove_countedFirst(t, key) ==
  LET n == lookup(t, key)
  IN IF n = Nil THEN [t EXCEPT !.size = @ - 1] ELSE removeNode(t, n)

Remove(t, key) ==
  LET n == lookup(t, key)
  IN IF n = Nil THEN t ELSE removeNode(t, n)

Empty(t) == t.size = 0

Size(t) == t.size

\* Mutant: the root is dropped and the size is kept.
Clear_sizeKept(t) == [t EXCEPT !.Root = Nil]

Clear(t) == [t EXCEPT !.Root = Nil, !.size = 0]

RECURSIVE LeftLoop(_, _, _)
LeftLoop(t, parent, current) ==
  IF current # Nil THEN LeftLoop(t, current, t.node[current].Left) ELSE parent

Left(t) == LeftLoop(t, Nil, t.Root)

\* Mutant: the walk of Right goes down the left links, as that of Left does.
RECURSIVE RightLoop_leftward(_, _, _)
RightLoop_leftward(t, parent, current) ==
  IF current # Nil THEN RightLoop_leftward(t, current, t.node[current].Left) ELSE parent

RECURSIVE RightLoop(_, _, _)
RightLoop(t, parent, current) ==
  IF current # Nil THEN RightLoop(t, current, t.node[current].Right) ELSE parent

Right(t) == RightLoop(t, Nil, t.Root)

\* Mutant: the first candidate met on the way down is kept, not the last.
RECURSIVE FloorLoop_firstKept(_, _, _, _, _)
FloorLoop_firstKept(t, n, key, floor, found) ==
  IF n = Nil
  THEN IF found THEN [node |-> floor, found |-> TRUE] ELSE [node |-> Nil, found |-> FALSE]
  ELSE LET compare == Comparator(key, t.node[n].Key)
       IN IF compare = 0 THEN [node |-> n, found |-> TRUE]
          ELSE IF compare < 0 THEN FloorLoop_firstKept(t, t.node[n].Left, key, floor, found)
          ELSE FloorLoop_firstKept(t, t.node[n].Right, key, IF found THEN floor ELSE n, TRUE)

\* The loop of Floor: `floor` and `found` are its named results so far.
RECURSIVE FloorLoop(_, _, _, _, _)
FloorLoop(t, n, key, floor, found) ==
  IF n = Nil
  THEN IF found THEN [node |-> floor, found |-> TRUE] ELSE [node |-> Nil, found |-> FALSE]
  ELSE LET compare == Comparator(key, t.node[n].Key)
       IN IF compare = 0 THEN [node |-> n, found |-> TRUE]
          ELSE IF compare < 0 THEN FloorLoop(t, t.node[n].Left, key, floor, found)
          ELSE FloorLoop(t, t.node[n].Right, key, n, TRUE)

Floor(t, key) == FloorLoop(t, t.Root, key, Nil, FALSE)

\* Mutant: a key below the node's key is taken for the ceiling at once, without
\* looking for a smaller candidate in the left subtree.
RECURSIVE CeilingLoop_noDescent(_, _, _, _, _)
CeilingLoop_noDescent(t, n, key, ceiling, found) ==
  IF n = Nil
  THEN IF found THEN [node |-> ceiling, found |-> TRUE] ELSE [node |-> Nil, found |-> FALSE]
  ELSE LET compare == Comparator(key, t.node[n].Key)
       IN IF compare = 0 THEN [node |-> n, found |-> TRUE]
          ELSE IF compare < 0 THEN [node |-> n, found |-> TRUE]
          ELSE CeilingLoop_noDescent(t, t.node[n].Right, key, ceiling, found)

\* The loop of Ceiling: `ceiling` and `found` are its named results so far.
RECURSIVE CeilingLoop(_, _, _, _, _)
CeilingLoop(t, n, key, ceiling, found) ==
  IF n = Nil
  THEN IF found THEN [node |-> ceiling, found |-> TRUE] ELSE [node |-> Nil, found |-> FALSE]
  ELSE LET compare == Comparator(key, t.node[n].Key)
       IN IF compare = 0 THEN [node |-> n, found |-> TRUE]
          ELSE IF compare < 0 THEN CeilingLoop(t, t.node[n].Left, key, n, TRUE)
          ELSE CeilingLoop(t, t.node[n].Right, key, ceiling, found)

Ceiling(t, key) == CeilingLoop(t, t.Root, key, Nil, FALSE)

\* position
begin == 0
between == 1
end == 2

Iterator(t) == [node |-> Nil, position |-> begin]

\* Mutant: the right child is taken without going down to its leftmost node.
NextDown_noDescent(t, n) == n

\* Next, lines 583-585: the leftmost node below n.
RECURSIVE NextDown(_, _)
NextDown(t, n) ==
  IF t.node[n].Left # Nil THEN NextDown(t, t.node[n].Left) ELSE n

\* Next, lines 598-601 (label end).
NextEnd == [it |-> [node |-> Nil, position |-> end], ok |-> FALSE]

\* Next, lines 603-605 (label between).
NextBetween(n) == [it |-> [node |-> n, position |-> between], ok |-> TRUE]

\* Mutant: the climb stops at the first parent, whatever its key.
NextUp_firstParent(t, start, n) ==
  IF t.node[n].Parent # Nil THEN NextBetween(t.node[n].Parent) ELSE NextEnd

\* Mutant: the climb passes an ancestor whose key equals start's.
RECURSIVE NextUp_strict(_, _, _)
NextUp_strict(t, start, n) ==
  IF t.node[n].Parent # Nil
  THEN IF Comparator(t.node[start].Key, t.node[t.node[n].Parent].Key) < 0
       THEN NextBetween(t.node[n].Parent)
       ELSE NextUp_strict(t, start, t.node[n].Parent)
  ELSE NextEnd

\* Next, lines 590-595: climb from `start` until an ancestor's key is not below
\* start's.
RECURSIVE NextUp(_, _, _)
NextUp(t, start, n) ==
  IF t.node[n].Parent # Nil
  THEN IF Comparator(t.node[start].Key, t.node[t.node[n].Parent].Key) <= 0
       THEN NextBetween(t.node[n].Parent)
       ELSE NextUp(t, start, t.node[n].Parent)
  ELSE NextEnd

\* Mutant: a Next at one-past-the-end starts over from the first element.
IteratorNext_wraps(t, it) ==
  IF it.position = end \/ it.position = begin
  THEN IF Left(t) = Nil THEN NextEnd ELSE NextBetween(Left(t))
  ELSE IF t.node[it.node].Right # Nil THEN NextBetween(NextDown(t, t.node[it.node].Right))
  ELSE IF t.node[it.node].Parent # Nil THEN NextUp(t, it.node, it.node)
  ELSE NextEnd

\* Iterator.Next: the iterator after the call and the value returned.
IteratorNext(t, it) ==
  IF it.position = end THEN NextEnd
  ELSE IF it.position = begin
  THEN IF Left(t) = Nil THEN NextEnd ELSE NextBetween(Left(t))
  ELSE IF t.node[it.node].Right # Nil THEN NextBetween(NextDown(t, t.node[it.node].Right))
  ELSE IF t.node[it.node].Parent # Nil THEN NextUp(t, it.node, it.node)
  ELSE NextEnd

\* Mutant: the left child is taken without going down to its rightmost node.
PrevDown_noDescent(t, n) == n

\* Prev, lines 625-627: the rightmost node below n.
RECURSIVE PrevDown(_, _)
PrevDown(t, n) ==
  IF t.node[n].Right # Nil THEN PrevDown(t, t.node[n].Right) ELSE n

\* Mutant: label begin sets the position that label end of Next sets.
PrevBegin_end == [it |-> [node |-> Nil, position |-> end], ok |-> FALSE]

\* Prev, lines 640-643 (label begin).
PrevBegin == [it |-> [node |-> Nil, position |-> begin], ok |-> FALSE]

\* Prev, lines 645-647 (label between).
PrevBetween(n) == [it |-> [node |-> n, position |-> between], ok |-> TRUE]

\* Prev, lines 632-637: climb from `start` until an ancestor's key is not above
\* start's.
RECURSIVE PrevUp(_, _, _)
PrevUp(t, start, n) ==
  IF t.node[n].Parent # Nil
  THEN IF Comparator(t.node[start].Key, t.node[t.node[n].Parent].Key) >= 0
       THEN PrevBetween(t.node[n].Parent)
       ELSE PrevUp(t, start, t.node[n].Parent)
  ELSE PrevBegin

\* Iterator.Prev: the iterator after the call and the value returned.
IteratorPrev(t, it) ==
  IF it.position = begin THEN PrevBegin
  ELSE IF it.position = end
  THEN IF Right(t) = Nil THEN PrevBegin ELSE PrevBetween(Right(t))
  ELSE IF t.node[it.node].Left # Nil THEN PrevBetween(PrevDown(t, t.node[it.node].Left))
  ELSE IF t.node[it.node].Parent # Nil THEN PrevUp(t, it.node, it.node)
  ELSE PrevBegin

\* Iterator.Value and Iterator.Key read a field of iterator.node. With a nil
\* node the read is a nil pointer dereference, of which Go makes a run-time
\* panic: `panic` tells it, and the other field is then no result.
IteratorValue(t, it) ==
  IF it.node = Nil THEN [value |-> AnyEmpty, panic |-> TRUE]
  ELSE [value |-> t.node[it.node].Value, panic |-> FALSE]

IteratorKey(t, it) ==
  IF it.node = Nil THEN [key |-> 0, panic |-> TRUE]
  ELSE [key |-> t.node[it.node].Key, panic |-> FALSE]

\* Mutant: Begin resets the position and keeps the node.
IteratorBegin_nodeKept(it) == [it EXCEPT !.position = begin]

IteratorBegin(it) == [it EXCEPT !.node = Nil, !.position = begin]

\* Mutant: End sets the position and keeps the node.
IteratorEnd_nodeKept(it) == [it EXCEPT !.position = end]

IteratorEnd(it) == [it EXCEPT !.node = Nil, !.position = end]

\* Mutant: First moves on from where the iterator is, without Begin.
IteratorFirst_noBegin(t, it) == IteratorNext(t, it)

IteratorFirst(t, it) == IteratorNext(t, IteratorBegin(it))

IteratorLast(t, it) == IteratorPrev(t, IteratorEnd(it))

\* The loop of Keys: keys[i] = it.Key() for as long as it.Next(). The slice is
\* indexed from 1 here; storing past its end is Go's index-out-of-range panic.
RECURSIVE KeysLoop(_, _, _, _)
KeysLoop(t, it, i, keys) ==
  LET r == IteratorNext(t, it)
  IN IF ~r.ok THEN [keys |-> keys, panic |-> FALSE]
     ELSE IF i >= Len(keys) THEN [keys |-> keys, panic |-> TRUE]
     ELSE KeysLoop(t, r.it, i + 1, [keys EXCEPT ![i + 1] = t.node[r.it.node].Key])

Keys(t) == KeysLoop(t, Iterator(t), 0, [j \in 1..t.size |-> 0])

\* Mutant: the values are stored from the end of the slice backwards.
RECURSIVE ValuesLoop_backwards(_, _, _, _)
ValuesLoop_backwards(t, it, i, values) ==
  LET r == IteratorNext(t, it)
  IN IF ~r.ok THEN [values |-> values, panic |-> FALSE]
     ELSE IF i >= Len(values) THEN [values |-> values, panic |-> TRUE]
     ELSE ValuesLoop_backwards(t, r.it, i + 1,
                               [values EXCEPT ![Len(values) - i] = t.node[r.it.node].Value])

RECURSIVE ValuesLoop(_, _, _, _)
ValuesLoop(t, it, i, values) ==
  LET r == IteratorNext(t, it)
  IN IF ~r.ok THEN [values |-> values, panic |-> FALSE]
     ELSE IF i >= Len(values) THEN [values |-> values, panic |-> TRUE]
     ELSE ValuesLoop(t, r.it, i + 1, [values EXCEPT ![i + 1] = t.node[r.it.node].Value])

Values(t) == ValuesLoop(t, Iterator(t), 0, [j \in 1..t.size |-> AnyEmpty])

\* The abstract map with no key.
EmptyMap == [k \in {} |-> AnyEmpty]

\* What `run` is with the iterator at a position and no step of a traversal
\* made: a forward traversal can start at one-before-first, a backward one at
\* one-past-the-end.
RunAt(position) ==
  [fwdOn |-> position = begin, fwd |-> <<>>, bwdOn |-> position = end, bwd |-> <<>>]

\* `run` after a Next that returned r.
RunNext(r0, r) ==
  [fwdOn |-> r0.fwdOn,
   fwd |-> IF r0.fwdOn /\ r.ok THEN Append(r0.fwd, node[r.it.node].Key) ELSE r0.fwd,
   bwdOn |-> ~r.ok, bwd |-> <<>>]

\* `run` after a Prev that returned r.
RunPrev(r0, r) ==
  [fwdOn |-> ~r.ok, fwd |-> <<>>,
   bwdOn |-> r0.bwdOn,
   bwd |-> IF r0.bwdOn /\ r.ok THEN Append(r0.bwd, node[r.it.node].Key) ELSE r0.bwd]

\* The tree that New returns.
NewTree == [Root |-> Nil, size |-> 0, node |-> [h \in Handles |-> FreeNode]]

-----------------------------------------------------------------------------
\* The containers beside the tree: their bounds and their constructors.

\* treebidimap.NewWith(utils.IntComparator, utils.IntComparator)
NewWith == [forwardMap |-> NewTree, inverseMap |-> NewTree]

\* hashmap.New(): an empty Go map.
hashmapNew == [k \in {} |-> 0]

\* hashbidimap.New()
hashbidimapNew == [forwardMap |-> hashmapNew, inverseMap |-> hashmapNew]

\* The keys put in the AVL tree are 0..MaxAvlKey; its arena holds one node
\* per key.
MaxAvlKey == 7
AvlKeySet == 0..MaxAvlKey
AvlHandles == 1..(MaxAvlKey + 1)

\* Memory of the AVL arena no pointer refers to.
AvlFreeNode ==
  [Key |-> 0, Value |-> AnyEmpty, Parent |-> Nil, Children |-> <<Nil, Nil>>, b |-> 0]

\* avltree.NewWith(utils.IntComparator)
avlNewWith == [Root |-> Nil, size |-> 0, node |-> [h \in AvlHandles |-> AvlFreeNode]]

\* linkedhashmap.New(): an empty table and an empty list.
linkedhashmapNew == [table |-> hashmapNew, ordering |-> << >>]

-----------------------------------------------------------------------------

Init ==
  /\ Root = Nil
  /\ size = 0
  /\ node = [h \in Handles |-> FreeNode]
  /\ M = EmptyMap
  /\ last = [op |-> "New", found |-> FALSE, children |-> 0, fixup |-> FALSE, redChild |-> FALSE,
             from |-> begin, ok |-> FALSE]
  /\ iterator = Iterator(Tree)
  /\ run = RunAt(begin)
  /\ trip = [removing |-> FALSE, puts |-> 0]
  /\ treebidimap = NewWith
  /\ hashbidimap = hashbidimapNew
  /\ avl = avlNewWith
  /\ linkedhashmap = linkedhashmapNew
  /\ container = [values |-> << >>, sorted |-> << >>]
  /\ call = [op |-> "New", on |-> ""]

Store(t) ==
  \E c \in {Collect(t)} : Root' = c.Root /\ size' = c.size /\ node' = c.node

\* Put, as far as the tree, the abstract map and `last` go.
PutCall(key, value) ==
  /\ lookup(Tree, key) # Nil \/ Handles \ LiveSet(Tree) # {}
  /\ M' = [k \in DOMAIN M \cup {key} |-> IF k = key THEN value ELSE M[k]]
  /\ last' = [op |-> "Put", found |-> lookup(Tree, key) # Nil,
              children |-> 0, fixup |-> FALSE, redChild |-> FALSE,
              from |-> iterator.position, ok |-> FALSE]
  /\ Store(Put(Tree, key, value))

\* Remove, as far as the tree, the abstract map and `last` go.
RemoveLast(key) ==
  LET n == lookup(Tree, key)
      v == victim(Tree, n)
  IN IF n = Nil
     THEN [op |-> "Remove", found |-> FALSE, children |-> 0, fixup |-> FALSE,
           redChild |-> FALSE, from |-> iterator.position, ok |-> FALSE]
     ELSE [op |-> "Remove", found |-> TRUE,
           children |-> Cardinality({node[n].Left, node[n].Right} \ {Nil}),
           fixup |-> node[v].color = black,
           redChild |-> /\ node[v].color = black
                        /\ {node[v].Left, node[v].Right} # {Nil},
           from |-> iterator.position, ok |-> FALSE]

RemoveCall(key) ==
  /\ M' = [k \in DOMAIN M \ {key} |-> M[k]]
  /\ last' = RemoveLast(key)
  /\ Store(Remove(Tree, key))

\* A call on the tree leaves the iterator as it is and ends the traversal
\* that `run` records.
PutStep(key, value) ==
  /\ PutCall(key, value)
  /\ run' = RunAt(iterator.position)
  /\ UNCHANGED <<iterator, trip, containers>>

RemoveStep(key) ==
  /\ RemoveCall(key)
  /\ run' = RunAt(iterator.position)
  /\ UNCHANGED <<iterator, trip, containers>>

ClearStep ==
  /\ M' = EmptyMap
  /\ last' = [op |-> "Clear", found |-> FALSE,
              children |-> 0, fixup |-> FALSE, redChild |-> FALSE,
              from |-> iterator.position, ok |-> FALSE]
  /\ Store(Clear(Tree))
  /\ run' = RunAt(iterator.position)
  /\ UNCHANGED <<iterator, trip, containers>>

Next ==
  \/ \E key \in KeySet : PutStep(key, "x")
  \/ \E key \in KeySet : RemoveStep(key)
  \/ ClearStep

Spec == Init /\ [][Next]_vars

NextValues ==
  \/ \E key \in ValueKeySet, value \in ValueSet : PutStep(key, value)
  \/ \E key \in ValueKeySet : RemoveStep(key)
  \/ ClearStep

SpecValues == Init /\ [][NextValues]_vars

\* A Put of a key that has not been put, before any Remove.
TripPut(key) ==
  /\ ~trip.removing
  /\ key \notin DOMAIN M
  /\ PutCall(key, "x")
  /\ trip' = [trip EXCEPT !.puts = @ + 1]
  /\ UNCHANGED <<iterator, run, containers>>

\* A Remove of a key that has been put and not removed.
TripRemove(key) ==
  /\ key \in DOMAIN M
  /\ RemoveCall(key)
  /\ trip' = [trip EXCEPT !.removing = TRUE]
  /\ UNCHANGED <<iterator, run, containers>>

NextTrip ==
  \/ \E key \in TripKeySet : TripPut(key)
  \/ \E key \in TripKeySet : TripRemove(key)

\* Distinct keys are put in any order, then removed in any order.
SpecTrip == Init /\ [][NextTrip]_vars

\* The record in `last` of a call on the iterator that returned ok.
IteratorCall(op, ok) ==
  [op |-> op, found |-> FALSE, children |-> 0, fixup |-> FALSE, redChild |-> FALSE,
   from |-> iterator.position, ok |-> ok]

\* it := tree.Iterator()
IteratorStep ==
  /\ iterator' = Iterator(Tree)
  /\ last' = IteratorCall("Iterator", TRUE)
  /\ run' = RunAt(begin)
  /\ UNCHANGED <<Root, size, node, M, trip, containers>>

\* Mutant: a Next that returns true removes the key it has reached and leaves
\* the iterator one-before-first.
NextStep_consuming ==
  LET r == IteratorNext(Tree, iterator)
  IN /\ iterator' = IteratorBegin(r.it)
     /\ last' = IteratorCall("Next", r.ok)
     /\ run' = RunAt(begin)
     /\ Store(IF r.ok THEN Remove(Tree, node[r.it.node].Key) ELSE Tree)
     /\ UNCHANGED <<M, trip, containers>>

NextStep ==
  LET r == IteratorNext(Tree, iterator)
  IN /\ iterator' = r.it
     /\ last' = IteratorCall("Next", r.ok)
     /\ run' = RunNext(run, r)
     /\ UNCHANGED <<Root, size, node, M, trip, containers>>

PrevStep ==
  LET r == IteratorPrev(Tree, iterator)
  IN /\ iterator' = r.it
     /\ last' = IteratorCall("Prev", r.ok)
     /\ run' = RunPrev(run, r)
     /\ UNCHANGED <<Root, size, node, M, trip, containers>>

BeginStep ==
  /\ iterator' = IteratorBegin(iterator)
  /\ last' = IteratorCall("Begin", TRUE)
  /\ run' = RunAt(begin)
  /\ UNCHANGED <<Root, size, node, M, trip, containers>>

EndStep ==
  /\ iterator' = IteratorEnd(iterator)
  /\ last' = IteratorCall("End", TRUE)
  /\ run' = RunAt(end)
  /\ UNCHANGED <<Root, size, node, M, trip, containers>>

FirstStep ==
  LET r == IteratorFirst(Tree, iterator)
  IN /\ iterator' = r.it
     /\ last' = IteratorCall("First", r.ok)
     /\ run' = RunNext(RunAt(begin), r)
     /\ UNCHANGED <<Root, size, node, M, trip, containers>>

LastStep ==
  LET r == IteratorLast(Tree, iterator)
  IN /\ iterator' = r.it
     /\ last' = IteratorCall("Last", r.ok)
     /\ run' = RunPrev(RunAt(end), r)
     /\ UNCHANGED <<Root, size, node, M, trip, containers>>

\* Key and Value return to the caller or panic: `ok` records which.
KeyStep ==
  /\ last' = IteratorCall("Key", ~IteratorKey(Tree, iterator).panic)
  /\ UNCHANGED <<Root, size, node, M, iterator, run, trip, containers>>

ValueStep ==
  /\ last' = IteratorCall("Value", ~IteratorValue(Tree, iterator).panic)
  /\ UNCHANGED <<Root, size, node, M, iterator, run, trip, containers>>

\* The tree is changed here only while the iterator holds no node: the
\* traversals are of a tree that does not change under them.
NextIterator ==
  \/ \E key \in IteratorKeySet : iterator.node = Nil /\ PutStep(key, "x")
  \/ \E key \in IteratorKeySet : iterator.node = Nil /\ RemoveStep(key)
  \/ iterator.node = Nil /\ ClearStep
  \/ IteratorStep
  \/ NextStep
  \/ PrevStep
  \/ BeginStep
  \/ EndStep
  \/ FirstStep
  \/ LastStep
  \/ KeyStep
  \/ ValueStep

SpecIterator == Init /\ [][NextIterator]_vars

-----------------------------------------------------------------------------
(* The properties.                                                         *)

\* The nodes below a set of nodes, through Left and Right.
RECURSIVE Below(_, _)
Below(t, S) ==
  LET T == S \cup (({t.node[n].Left : n \in S} \cup {t.node[n].Right : n \in S}) \ {Nil})
  IN IF T = S THEN S ELSE Below(t, T)

Subtree(n) == Below(Tree, {n} \ {Nil})

Reachable == Subtree(Root)

StoredKeys == {node[n].Key : n \in Reachable}

\* C1: after any sequence of Put, Remove and Clear, the key of every reachable
\* node compares greater than every key of its left subtree and less than
\* every key of its right subtree, and no two reachable nodes carry equal keys.
C1_SearchOrder ==
  /\ \A n \in Reachable :
       /\ \A m \in Subtree(node[n].Left) : Comparator(node[m].Key, node[n].Key) < 0
       /\ \A m \in Subtree(node[n].Right) : Comparator(node[m].Key, node[n].Key) > 0
  /\ \A a, b \in Reachable : a # b => Comparator(node[a].Key, node[b].Key) # 0

\* A Remove of a node with two children has acted and left a root with two
\* children.
C1_Witness ==
  /\ last.op = "Remove" /\ last.children = 2
  /\ Root # Nil /\ node[Root].Left # Nil /\ node[Root].Right # Nil

\* The numbers of black nodes on the paths from n down to a nil child.
RECURSIVE BlackCounts(_)
BlackCounts(n) ==
  IF n = Nil THEN {0}
  ELSE {c + (IF node[n].color = black THEN 1 ELSE 0) :
          c \in BlackCounts(node[n].Left) \cup BlackCounts(node[n].Right)}

\* C2: after every Put, Remove or Clear, every path from a reachable node down
\* to a nil child passes through the same number of black nodes.
C2_BlackHeight == \A n \in Reachable : Cardinality(BlackCounts(n)) = 1

\* A Remove that unlinked a black node with no child, so that the deletion
\* fix-up had a missing black node to make up for, has left six nodes or more.
C2_Witness ==
  /\ last.op = "Remove" /\ last.fixup /\ ~last.redChild
  /\ size >= 6

\* C3: after every Put, Remove or Clear, the root of a non-empty tree is black
\* and no red node has a red child.
C3_RedBlack ==
  /\ Root # Nil => node[Root].color = black
  /\ \A n \in Reachable :
       node[n].color = red =>
         nodeColor(Tree, node[n].Left) = black /\ nodeColor(Tree, node[n].Right) = black

\* A Remove has unlinked a black node that had a (red) child, and red nodes
\* remain.
C3_Witness ==
  /\ last.op = "Remove" /\ last.redChild
  /\ \E n \in Reachable : node[n].color = red

\* C4: the size counter equals the number of nodes reachable from the root;
\* it grows by one only when Put inserts a key that is not in the tree, shrinks
\* by one only when Remove finds its key, Clear makes it zero, and it is
\* unchanged otherwise.
C4_SizeStep ==
  /\ last'.op = "Put" => size' = size + (IF last'.found THEN 0 ELSE 1)
  /\ last'.op = "Remove" => size' = size - (IF last'.found THEN 1 ELSE 0)
  /\ last'.op = "Clear" => size' = 0

C4_Size == [](size = Cardinality(Reachable)) /\ [][C4_SizeStep]_vars

\* A Remove has found its key and left three nodes or more.
C4_Witness == last.op = "Remove" /\ last.found /\ size >= 3 /\ size = Cardinality(Reachable)

\* What Get returns for a key of the abstract map.
AbstractGet(k) ==
  IF k \in DOMAIN M THEN [value |-> M[k], found |-> TRUE]
  ELSE [value |-> AnyEmpty, found |-> FALSE]

\* C5: the tree refines the abstract map M stepped side by side: for every key
\* k, Get(k) returns (M[k], true) when k is in M and (empty value, false) when
\* it is not.
C5_Refinement == \A k \in QuerySet : Get(Tree, k) = AbstractGet(k)

\* A Put has overwritten a key of a tree that holds both values, and a key of
\* the key set is absent.
C5_Witness ==
  /\ last.op = "Put" /\ last.found
  /\ \E j, k \in DOMAIN M : M[j] # M[k]
  /\ \E k \in ValueKeySet : ~Get(Tree, k).found

\* C6: a Put of a key that is in the tree changes the key and the value stored
\* in that key's node and nothing else: size, root, links and colours stay.
C6_PutFrame(k, v) ==
  LET n == lookup(Tree, k)
  IN /\ size' = size
     /\ Root' = Root
     /\ node'[n] = [node[n] EXCEPT !.Key = k, !.Value = v]
     /\ \A h \in Handles \ {n} : node'[h] = node[h]

C6_PutExisting ==
  [][\A k \in ValueKeySet, v \in ValueSet :
       lookup(Tree, k) # Nil /\ PutStep(k, v) => C6_PutFrame(k, v)]_vars

\* A Put has overwritten a key of a tree of four nodes or more.
C6_Witness == last.op = "Put" /\ last.found /\ size >= 4

\* C7: a Remove of a key that is not in the tree changes nothing of the tree.
C7_RemoveAbsent ==
  [][\A k \in KeySet :
       lookup(Tree, k) = Nil /\ RemoveStep(k) => UNCHANGED <<Root, size, node>>]_vars

\* A Remove has not found its key in a tree of three nodes or more.
C7_Witness == last.op = "Remove" /\ ~last.found /\ size >= 3

\* C8: Keys() returns a sequence of length Size() that is strictly increasing
\* under the comparator and holds exactly the keys stored in the tree.
C8_Keys ==
  LET r == Keys(Tree)
  IN /\ ~r.panic
     /\ Len(r.keys) = size
     /\ \A i \in 1..(Len(r.keys) - 1) : Comparator(r.keys[i], r.keys[i + 1]) < 0
     /\ {r.keys[i] : i \in 1..Len(r.keys)} = StoredKeys

\* A Remove has left six keys or more, the smallest and the largest of the key
\* set not among them.
C8_Witness ==
  /\ last.op = "Remove" /\ last.found
  /\ Len(Keys(Tree).keys) >= 6
  /\ 0 \notin StoredKeys /\ MaxKey \notin StoredKeys

\* C9: Values() is ordered by key: Values()[i] is the value that Get returns
\* for Keys()[i], for every index i.
C9_Values ==
  LET ks == Keys(Tree)
      vs == Values(Tree)
  IN /\ ~ks.panic /\ ~vs.panic
     /\ Len(vs.values) = Len(ks.keys)
     /\ \A i \in 1..Len(ks.keys) :
          Get(Tree, ks.keys[i]) = [value |-> vs.values[i], found |-> TRUE]

\* Four keys or more are stored after a Remove, not all with the same value.
C9_Witness ==
  /\ last.op = "Remove" /\ last.found
  /\ Len(Values(Tree).values) >= 4
  /\ \E i, j \in 1..Len(Values(Tree).values) : Values(Tree).values[i] # Values(Tree).values[j]

\* The reachable nodes whose key is not above q.
NotAbove(q) == {n \in Reachable : Comparator(node[n].Key, q) <= 0}

\* C10: for every query key q, Floor(q) returns found = true and the node that
\* holds the largest stored key <= q when there is such a key, and (nil, false)
\* when every stored key is greater than q or the tree is empty.
C10_Floor ==
  \A q \in QuerySet :
    LET r == Floor(Tree, q)
    IN IF NotAbove(q) # {}
       THEN /\ r.found
            /\ r.node \in NotAbove(q)
            /\ \A m \in NotAbove(q) : Comparator(node[m].Key, node[r.node].Key) <= 0
       ELSE r = [node |-> Nil, found |-> FALSE]

\* In a tree of five nodes or more some key that is not stored has a floor
\* that is not the root, and some key has no floor.
C10_Witness ==
  /\ size >= 5
  /\ \E q \in QuerySet :
       /\ lookup(Tree, q) = Nil
       /\ Floor(Tree, q).found
       /\ Floor(Tree, q).node # Root
  /\ \E q \in KeySet : ~Floor(Tree, q).found

\* The reachable nodes whose key is not below q.
NotBelow(q) == {n \in Reachable : Comparator(node[n].Key, q) >= 0}

\* C11: for every query key q, stored or not, Ceiling(q) returns found = true
\* and the node that holds the smallest stored key >= q when there is such a
\* key, and (nil, false) when every stored key is smaller than q or the tree is
\* empty.
C11_Ceiling ==
  \A q \in QuerySet :
    LET r == Ceiling(Tree, q)
    IN IF NotBelow(q) # {}
       THEN /\ r.found
            /\ r.node \in NotBelow(q)
            /\ \A m \in NotBelow(q) : Comparator(node[m].Key, node[r.node].Key) >= 0
       ELSE r = [node |-> Nil, found |-> FALSE]

\* In a tree of five nodes or more left by a Remove, some key that is not
\* stored has a ceiling that is neither the root nor a child of the root, some
\* stored key is its own ceiling, and some key has no ceiling.
C11_Witness ==
  /\ last.op = "Remove" /\ last.found /\ size >= 5
  /\ \E q \in QuerySet :
       /\ lookup(Tree, q) = Nil
       /\ Ceiling(Tree, q).found
       /\ Ceiling(Tree, q).node # Root
       /\ node[Ceiling(Tree, q).node].Parent # Root
  /\ \E q \in StoredKeys : Ceiling(Tree, q).node = lookup(Tree, q)
  /\ \E q \in KeySet : ~Ceiling(Tree, q).found

\* C12: after any sequence of Put, Remove and Clear, Left() returns the node of
\* the minimum stored key and Right() the node of the maximum stored key, and
\* each of them returns nil exactly when the tree is empty.
C12_LeftRight ==
  /\ (Left(Tree) = Nil) <=> Empty(Tree)
  /\ (Right(Tree) = Nil) <=> Empty(Tree)
  /\ (Left(Tree) = Nil) <=> (Reachable = {})
  /\ (Right(Tree) = Nil) <=> (Reachable = {})
  /\ Reachable # {} =>
       /\ Left(Tree) \in Reachable
       /\ Right(Tree) \in Reachable
       /\ \A m \in Reachable :
            /\ Comparator(node[Left(Tree)].Key, node[m].Key) <= 0
            /\ Comparator(node[Right(Tree)].Key, node[m].Key) >= 0

\* A Remove has left a tree whose minimum and maximum are both two links or
\* more below the root, and neither is the least or the greatest key of the
\* key set.
C12_Witness ==
  /\ last.op = "Remove" /\ last.found
  /\ Left(Tree) # Nil /\ node[Left(Tree)].Parent \notin {Nil, Root}
  /\ Right(Tree) # Nil /\ node[Right(Tree)].Parent \notin {Nil, Root}
  /\ node[Left(Tree)].Key # 0 /\ node[Right(Tree)].Key # MaxKey

\* C13: when distinct keys have been put in any order and then all of them
\* removed in any order, the tree is empty: Size() is 0, Empty() is true and
\* Root is nil.
C13_RoundTrip ==
  trip.removing /\ DOMAIN M = {} =>
    Size(Tree) = 0 /\ Empty(Tree) /\ Root = Nil

\* Every key of the key set has been put and the last of them has been
\* removed, by a Remove that found it.
C13_Witness ==
  /\ trip.removing /\ trip.puts = MaxTripKey + 1
  /\ DOMAIN M = {}
  /\ last.op = "Remove" /\ last.found
  /\ Root = Nil


\* C14: Clear, called in any reachable state, sets Root to nil and size to 0;
\* after it Get, Floor and Ceiling find no key, Keys() is empty, and a Put
\* gives the tree that it gives on a newly constructed tree.
C14_Clear ==
  LET c == Clear(Tree)
  IN /\ c.Root = Nil /\ c.size = 0
     /\ \A q \in QuerySet :
          /\ Get(c, q) = [value |-> AnyEmpty, found |-> FALSE]
          /\ Floor(c, q) = [node |-> Nil, found |-> FALSE]
          /\ Ceiling(c, q) = [node |-> Nil, found |-> FALSE]
     /\ Keys(c) = [keys |-> <<>>, panic |-> FALSE]
     /\ \A k \in KeySet : Collect(Put(c, k, "x")) = Collect(Put(NewTree, k, "x"))
     /\ last.op = "Clear" => Tree = NewTree

\* A Remove has left six nodes or more, and Clear called there leaves no key.
C14_Witness ==
  /\ last.op = "Remove" /\ size >= 6
  /\ Clear(Tree).Root = Nil
  /\ Keys(Clear(Tree)).keys = <<>>

\* The keys of a sequence of keys.
Range(keys) == {keys[j] : j \in 1..Len(keys)}

\* C15: an iterator obtained from Iterator() is one-before-first; on a tree
\* that does not change, the successive Next calls made from there visit the
\* stored keys in strictly ascending order, none skipped and none twice,
\* return true Size() times, and the Next that follows returns false and
\* leaves the iterator one-past-the-end.
C15_Forward ==
  /\ last.op = "Iterator" => iterator = [node |-> Nil, position |-> begin]
  /\ last.op = "Next" => last.ok = (iterator.position = between)
  /\ run.fwdOn =>
       /\ \A j \in 1..(Len(run.fwd) - 1) : Comparator(run.fwd[j], run.fwd[j + 1]) < 0
       /\ Range(run.fwd) \subseteq StoredKeys
       /\ \A k \in StoredKeys \ Range(run.fwd) :
            \A j \in 1..Len(run.fwd) : Comparator(run.fwd[j], k) < 0
       /\ iterator.position = begin => run.fwd = <<>>
       /\ iterator.position = between =>
            /\ run.fwd # <<>>
            /\ IteratorKey(Tree, iterator) = [key |-> run.fwd[Len(run.fwd)], panic |-> FALSE]
       /\ iterator.position = end =>
            /\ iterator.node = Nil
            /\ Len(run.fwd) = Size(Tree)
            /\ Range(run.fwd) = StoredKeys

\* A traversal by Next from one-before-first has visited four keys or more,
\* and the Next after the last of them has returned false.
C15_Witness ==
  /\ run.fwdOn /\ Len(run.fwd) >= 4
  /\ last.op = "Next" /\ last.from = between /\ ~last.ok
  /\ iterator.position = end

\* C16: on a tree that does not change, the successive Prev calls made from
\* one-past-the-end (after End(), or after a Next that returned false) visit
\* the stored keys in strictly descending order, none skipped and none twice,
\* return true Size() times, and the Prev that follows returns false and
\* leaves the iterator one-before-first.
C16_Backward ==
  /\ last.op = "End" \/ (last.op = "Next" /\ ~last.ok) =>
       iterator = [node |-> Nil, position |-> end] /\ run.bwdOn /\ run.bwd = <<>>
  /\ last.op = "Prev" => last.ok = (iterator.position = between)
  /\ run.bwdOn =>
       /\ \A j \in 1..(Len(run.bwd) - 1) : Comparator(run.bwd[j], run.bwd[j + 1]) > 0
       /\ Range(run.bwd) \subseteq StoredKeys
       /\ \A k \in StoredKeys \ Range(run.bwd) :
            \A j \in 1..Len(run.bwd) : Comparator(run.bwd[j], k) > 0
       /\ iterator.position = end => run.bwd = <<>>
       /\ iterator.position = between =>
            /\ run.bwd # <<>>
            /\ IteratorKey(Tree, iterator) = [key |-> run.bwd[Len(run.bwd)], panic |-> FALSE]
       /\ iterator.position = begin =>
            /\ iterator.node = Nil
            /\ Len(run.bwd) = Size(Tree)
            /\ Range(run.bwd) = StoredKeys

\* A traversal by Prev from one-past-the-end has visited four keys or more,
\* and the Prev after the last of them has returned false.
C16_Witness ==
  /\ run.bwdOn /\ Len(run.bwd) >= 4
  /\ last.op = "Prev" /\ last.from = between /\ ~last.ok
  /\ iterator.position = begin

\* A Next called one-past-the-end and a Prev called one-before-first return
\* false and leave the iterator where it was, with no node.
C17_Step ==
  /\ last'.op = "Next" /\ iterator.position = end =>
       ~last'.ok /\ iterator' = [node |-> Nil, position |-> end]
  /\ last'.op = "Prev" /\ iterator.position = begin =>
       ~last'.ok /\ iterator' = [node |-> Nil, position |-> begin]

\* C17: a Next that returns false leaves the iterator one-past-the-end with no
\* node, and every Next called there returns false and leaves it there; a
\* Prev that returns false leaves it one-before-first with no node, and every
\* Prev called there returns false and leaves it there.
C17_Exhausted ==
  /\ [](/\ last.op = "Next" /\ ~last.ok => iterator = [node |-> Nil, position |-> end]
        /\ last.op = "Prev" /\ ~last.ok => iterator = [node |-> Nil, position |-> begin])
  /\ [][C17_Step]_vars

\* After a traversal by Next of three keys or more had ended, Next has been
\* called again, one-past-the-end.
C17_Witness ==
  /\ run.fwdOn /\ Len(run.fwd) >= 3
  /\ last.op = "Next" /\ last.from = end /\ ~last.ok
  /\ iterator.position = end

\* What a call that moves the iterator to the node n of a non-empty tree
\* returns.
MovedTo(n) == [it |-> [node |-> n, position |-> between], ok |-> TRUE]

\* C18: wherever the iterator is, Begin() then Next(), and First(), put it on
\* the node of the minimum key and return true when the tree is not empty;
\* End() then Prev(), and Last(), put it on the node of the maximum key and
\* return true when the tree is not empty; First() and Last() return false
\* when the tree is empty.
C18_FirstLast ==
  /\ IF Empty(Tree)
     THEN /\ ~IteratorFirst(Tree, iterator).ok
          /\ ~IteratorLast(Tree, iterator).ok
     ELSE /\ IteratorFirst(Tree, iterator) = MovedTo(Left(Tree))
          /\ IteratorNext(Tree, IteratorBegin(iterator)) = MovedTo(Left(Tree))
          /\ IteratorLast(Tree, iterator) = MovedTo(Right(Tree))
          /\ IteratorPrev(Tree, IteratorEnd(iterator)) = MovedTo(Right(Tree))
          /\ \A m \in Reachable :
               /\ Comparator(node[Left(Tree)].Key, node[m].Key) <= 0
               /\ Comparator(node[Right(Tree)].Key, node[m].Key) >= 0
  /\ last.op = "First" \/ (last.op = "Next" /\ last.from = begin) =>
       /\ last.ok = ~Empty(Tree)
       /\ last.ok => iterator = [node |-> Left(Tree), position |-> between]
  /\ last.op = "Last" \/ (last.op = "Prev" /\ last.from = end) =>
       /\ last.ok = ~Empty(Tree)
       /\ last.ok => iterator = [node |-> Right(Tree), position |-> between]

\* First has been called with the iterator on a node of a tree of four nodes
\* or more whose minimum is two links or more below the root, and has put the
\* iterator on the minimum.
C18_Witness ==
  /\ last.op = "First" /\ last.from = between /\ last.ok
  /\ size >= 4
  /\ iterator.node = Left(Tree)
  /\ node[Left(Tree)].Parent \notin {Nil, Root}

\* C19: with the iterator one-before-first or one-past-the-end, Key() and
\* Value() panic and return nothing; with the iterator on a node they return
\* the key and the value of that node, which is a node of the tree; and they
\* leave the iterator as it is.
C19_KeyValue ==
  /\ [](/\ iterator.position # between =>
             /\ IteratorKey(Tree, iterator).panic
             /\ IteratorValue(Tree, iterator).panic
        /\ iterator.position = between =>
             /\ iterator.node \in Reachable
             /\ IteratorKey(Tree, iterator) = [key |-> node[iterator.node].Key, panic |-> FALSE]
             /\ IteratorValue(Tree, iterator) =
                  [value |-> M[node[iterator.node].Key], panic |-> FALSE]
        /\ last.op \in {"Key", "Value"} => last.ok = (last.from = between))
  /\ [][last'.op \in {"Key", "Value"} => iterator' = iterator]_vars

\* Key has been called one-past-the-end of a tree of three nodes or more, and
\* has panicked.
C19_Witness ==
  /\ last.op = "Key" /\ last.from = end /\ ~last.ok
  /\ iterator.position = end
  /\ size >= 3

\* The operations of the iterator.
IteratorOps == {"Next", "Prev", "Begin", "End", "First", "Last", "Key", "Value"}

\* C20: Next, Prev, Begin, End, First, Last, Key and Value leave the tree as it
\* is: the root, the size and every field of every node.
C20_TreeFrame ==
  [][last'.op \in IteratorOps => UNCHANGED <<Root, size, node>>]_vars

\* A Next has moved the iterator up from a node to an ancestor of it, in a
\* tree of four nodes or more.
C20_Witness ==
  /\ last.op = "Next" /\ last.from = between /\ last.ok
  /\ size >= 4
  /\ node[iterator.node].Left # Nil
  /\ Len(run.fwd) >= 2

-----------------------------------------------------------------------------
(* Package treemap: Map[int, string] holds a red-black tree.               *)

\* utils.AnyEmpty[T](): the zero value of the key type.
AnyEmptyKey == 0

\* An interface{} value: the nil interface, or one that holds v.
NilInterface == <<>>
Interface(v) == <<v>>

\* Map.Min: (key T, value P).
MapMin(t) ==
  LET n == Left(t)
  IN IF n # Nil THEN [key |-> t.node[n].Key, value |-> t.node[n].Value]
     ELSE [key |-> AnyEmptyKey, value |-> AnyEmpty]

\* Map.Max: (key interface{}, value interface{}).
MapMax(t) ==
  LET n == Right(t)
  IN IF n # Nil THEN [key |-> Interface(t.node[n].Key), value |-> Interface(t.node[n].Value)]
     ELSE [key |-> NilInterface, value |-> NilInterface]

\* Map.Floor: (foundKey T, foundValue P).
MapFloor(t, key) ==
  LET r == Floor(t, key)
  IN IF r.found THEN [key |-> t.node[r.node].Key, value |-> t.node[r.node].Value]
     ELSE [key |-> AnyEmptyKey, value |-> AnyEmpty]

\* Map.Ceiling: (foundKey T, foundValue P).
MapCeiling(t, key) ==
  LET r == Ceiling(t, key)
  IN IF r.found THEN [key |-> t.node[r.node].Key, value |-> t.node[r.node].Value]
     ELSE [key |-> AnyEmptyKey, value |-> AnyEmpty]

\* The pair that Min, Floor and Ceiling return when there is no entry, and
\* the pair that Max returns then.
NoEntry == [key |-> AnyEmptyKey, value |-> AnyEmpty]
NoMaxEntry == [key |-> NilInterface, value |-> NilInterface]

\* C21: Min, Max, Floor and Ceiling of the tree map return the empty pair when
\* there is no entry to return, and when there is one the key returned is not
\* the empty key, so that the key alone tells whether an entry was found.
C21_AbsenceDistinct ==
  /\ IF Empty(Tree) THEN MapMin(Tree) = NoEntry ELSE MapMin(Tree).key # NoEntry.key
  /\ IF Empty(Tree) THEN MapMax(Tree) = NoMaxEntry ELSE MapMax(Tree).key # NoMaxEntry.key
  /\ \A q \in QuerySet :
       /\ IF Floor(Tree, q).found
          THEN MapFloor(Tree, q).key # NoEntry.key
          ELSE MapFloor(Tree, q) = NoEntry
       /\ IF Ceiling(Tree, q).found
          THEN MapCeiling(Tree, q).key # NoEntry.key
          ELSE MapCeiling(Tree, q) = NoEntry

\* What does hold: Max tells absence from presence by its key, and the other
\* three return the empty pair when there is no entry.
C21_MaxDistinct ==
  /\ Empty(Tree) <=> (MapMax(Tree).key = NilInterface)
  /\ Empty(Tree) => MapMin(Tree) = NoEntry
  /\ \A q \in QuerySet :
       /\ ~Floor(Tree, q).found => MapFloor(Tree, q) = NoEntry
       /\ ~Ceiling(Tree, q).found => MapCeiling(Tree, q) = NoEntry

\* The map holds the key 0 with the empty value and other keys: Min and
\* Floor(0) return an entry that equals the pair returned for no entry.
C21_Witness ==
  /\ size >= 3
  /\ ~Empty(Tree) /\ MapMin(Tree) = NoEntry
  /\ Floor(Tree, 0).found /\ MapFloor(Tree, 0) = NoEntry
  /\ Ceiling(Tree, 0).found /\ MapCeiling(Tree, 0) = NoEntry

-----------------------------------------------------------------------------
(* The tree changed under an iterator that is on a node.                   *)

\* The nodes that the tree and the pointer n keep alive.
LiveWith(t, n) == Walk(t, <<t.Root, n>>, << >>)

\* Collect, with the iterator's node kept alive as the tree's nodes are: the
\* tree after the collection and the handle that n has become.
CollectWith(t, n) ==
  LET live == LiveWith(t, n)
      to(h) == IF h = Nil THEN Nil ELSE CHOOSE i \in 1..Len(live) : live[i] = h
  IN [Root |-> to(t.Root),
      size |-> t.size,
      node |-> [h \in Handles |->
                  IF h <= Len(live)
                  THEN [t.node[live[h]] EXCEPT !.Left = to(@), !.Right = to(@), !.Parent = to(@)]
                  ELSE FreeNode],
      pointer |-> to(n)]

StoreUnder(t) ==
  LET c == CollectWith(t, iterator.node)
  IN /\ Root' = c.Root /\ size' = c.size /\ node' = c.node
     /\ iterator' = [iterator EXCEPT !.node = c.pointer]

\* The calls on the tree are made here wherever the iterator is, but for two
\* places: while it holds a node that has left the tree (the allocation of Put
\* is modelled for the nodes of the tree only), and once the traversal recorded
\* in `run` is longer than the key set (the record is kept finite).
CanChange ==
  /\ iterator.node = Nil \/ iterator.node \in LiveSet(Tree)
  /\ Len(run.fwd) <= MaxUnderKey + 1
  /\ Len(run.bwd) <= MaxUnderKey + 1

\* The traversal that `run` records goes on over the change.
PutUnder(key, value) ==
  /\ CanChange
  /\ lookup(Tree, key) # Nil \/ Handles \ LiveSet(Tree) # {}
  /\ M' = [k \in DOMAIN M \cup {key} |-> IF k = key THEN value ELSE M[k]]
  /\ last' = [op |-> "Put", found |-> lookup(Tree, key) # Nil,
              children |-> 0, fixup |-> FALSE, redChild |-> FALSE,
              from |-> iterator.position, ok |-> FALSE]
  /\ StoreUnder(Put(Tree, key, value))
  /\ UNCHANGED <<run, trip, containers>>

RemoveUnder(key) ==
  /\ CanChange
  /\ M' = [k \in DOMAIN M \ {key} |-> M[k]]
  /\ last' = LET n == lookup(Tree, key)
             IN [op |-> "Remove", found |-> n # Nil,
                 children |-> IF n = Nil THEN 0
                              ELSE Cardinality({node[n].Left, node[n].Right} \ {Nil}),
                 fixup |-> FALSE, redChild |-> FALSE,
                 from |-> iterator.position, ok |-> FALSE]
  /\ StoreUnder(Remove(Tree, key))
  /\ UNCHANGED <<run, trip, containers>>

ClearUnder ==
  /\ CanChange
  /\ M' = EmptyMap
  /\ last' = [op |-> "Clear", found |-> FALSE,
              children |-> 0, fixup |-> FALSE, redChild |-> FALSE,
              from |-> iterator.position, ok |-> FALSE]
  /\ StoreUnder(Clear(Tree))
  /\ UNCHANGED <<run, trip, containers>>

NextUnder ==
  \/ \E key \in UnderKeySet : PutUnder(key, "x")
  \/ \E key \in UnderKeySet : RemoveUnder(key)
  \/ ClearUnder
  \/ NextStep
  \/ PrevStep

SpecUnder == Init /\ [][NextUnder]_vars

\* A Next called just after a Remove that took a node with two children from
\* under the iterator, which was on that node's in-order predecessor (the node
\* that Remove unlinks): Next returns true and puts the iterator on a node of
\* the tree whose key is the key the iterator was on.
C22_RemoveRepeats ==
  /\ last.op = "Remove" /\ last.children = 2 /\ last.from = between
  /\ iterator.node \notin Reachable
  /\ last'.op = "Next"
  => /\ last'.ok
     /\ iterator'.node \in Reachable
     /\ node[iterator'.node].Key = node[iterator.node].Key

\* C22: a call on the tree made while the iterator is on a node is not
\* checked, and the traversal that follows is not one of the tree's keys in
\* order. After a Remove that unlinks the node the iterator is on in place of
\* a node with two children, the next Next returns the key just visited once
\* more; after a Clear the iterator is still on a node and reads its key,
\* which the tree no longer stores. Neither raises an error.
C22_Unsafe ==
  /\ [](last.op = "Clear" /\ last.from = between =>
          /\ Root = Nil /\ size = 0 /\ StoredKeys = {}
          /\ iterator.position = between
          /\ IteratorKey(Tree, iterator).panic = FALSE)
  /\ [][C22_RemoveRepeats]_vars

\* A traversal by Next from one-before-first, with one Remove made while the
\* iterator was on a node, has visited the same key twice in a row.
C22_Witness ==
  /\ run.fwdOn /\ Len(run.fwd) >= 2
  /\ run.fwd[Len(run.fwd)] = run.fwd[Len(run.fwd) - 1]
  /\ last.op = "Next" /\ last.ok
  /\ iterator.node \in Reachable
  /\ size >= 2

-----------------------------------------------------------------------------
\* Packages treebidimap and hashbidimap: a map with a forward and an inverse
\* direction, Map[int, int] under utils.IntComparator for keys and values.

\* The keys put are 0..MaxBidiKey and the values 0..MaxBidiValue.
MaxBidiKey == 1
MaxBidiValue == 1
BidiKeySet == 0..MaxBidiKey
BidiValueSet == 0..MaxBidiValue

\* One call on one of the two trees of a treebidimap.
treeCall(t, c) ==
  IF c.op = "Put" THEN Put(t, c.key, c.value)
  ELSE IF c.op = "Remove" THEN Remove(t, c.key)
  ELSE IF c.op = "Clear" THEN Clear(t)
  ELSE t

\* The number of calls on the trees that a method of treebidimap makes at
\* most.
Statements(method) == IF method = "Put" THEN 4 ELSE 2

\* Mutant: in Put, a pair that holds the value under another key stays in
\* the forward tree.
treebidimapStatement_valueKept(m, method, key, value, pc, d) ==
  IF method = "Put"
  THEN IF pc = 1
       THEN LET v == Get(m.forwardMap, key)
            IN [on |-> "inverseMap", op |-> IF v.found THEN "Remove" ELSE "Skip",
                key |-> v.value, value |-> 0]
       ELSE IF pc = 2
            THEN [on |-> "forwardMap", op |-> "Skip", key |-> 0, value |-> 0]
            ELSE IF pc = 3
                 THEN [on |-> "forwardMap", op |-> "Put", key |-> key, value |-> value]
                 ELSE [on |-> "inverseMap", op |-> "Put", key |-> value, value |-> key]
  ELSE IF method = "Remove"
       THEN IF pc = 1
            THEN [on |-> "forwardMap", op |-> IF d.found THEN "Remove" ELSE "Skip",
                  key |-> key, value |-> 0]
            ELSE [on |-> "inverseMap", op |-> IF d.found THEN "Remove" ELSE "Skip",
                  key |-> d.value, value |-> 0]
       ELSE IF pc = 1
            THEN [on |-> "forwardMap", op |-> "Clear", key |-> 0, value |-> 0]
            ELSE [on |-> "inverseMap", op |-> "Clear", key |-> 0, value |-> 0]

\* The pc-th call on a tree that a method of treebidimap makes on the map m:
\* on which tree, which operation, with which arguments ("Skip" when the
\* condition around the call is false). d is what m.forwardMap.Get(key)
\* returned when the method was entered.
\*   Put:    if v, ok := m.forwardMap.Get(key); ok { m.inverseMap.Remove(v) }
\*           if k, ok := m.inverseMap.Get(value); ok { m.forwardMap.Remove(k) }
\*           m.forwardMap.Put(key, value)
\*           m.inverseMap.Put(value, key)
\*   Remove: if d, found := m.forwardMap.Get(key); found {
\*             m.forwardMap.Remove(key); m.inverseMap.Remove(d) }
\*   Clear:  m.forwardMap.Clear(); m.inverseMap.Clear()
treebidimapStatement(m, method, key, value, pc, d) ==
  IF method = "Put"
  THEN IF pc = 1
       THEN LET v == Get(m.forwardMap, key)
            IN [on |-> "inverseMap", op |-> IF v.found THEN "Remove" ELSE "Skip",
                key |-> v.value, value |-> 0]
       ELSE IF pc = 2
            THEN LET k == Get(m.inverseMap, value)
                 IN [on |-> "forwardMap", op |-> IF k.found THEN "Remove" ELSE "Skip",
                     key |-> k.value, value |-> 0]
            ELSE IF pc = 3
                 THEN [on |-> "forwardMap", op |-> "Put", key |-> key, value |-> value]
                 ELSE [on |-> "inverseMap", op |-> "Put", key |-> value, value |-> key]
  ELSE IF method = "Remove"
       THEN IF pc = 1
            THEN [on |-> "forwardMap", op |-> IF d.found THEN "Remove" ELSE "Skip",
                  key |-> key, value |-> 0]
            ELSE [on |-> "inverseMap", op |-> IF d.found THEN "Remove" ELSE "Skip",
                  key |-> d.value, value |-> 0]
       ELSE IF pc = 1
            THEN [on |-> "forwardMap", op |-> "Clear", key |-> 0, value |-> 0]
            ELSE [on |-> "inverseMap", op |-> "Clear", key |-> 0, value |-> 0]

\* A method of treebidimap from its pc-th call on.
RECURSIVE treebidimapFrom(_, _, _, _, _, _)
treebidimapFrom(m, method, key, value, pc, d) ==
  IF pc > Statements(method) THEN m
  ELSE treebidimapFrom(
         [m EXCEPT ![treebidimapStatement(m, method, key, value, pc, d).on] =
                      treeCall(@, treebidimapStatement(m, method, key, value, pc, d))],
         method, key, value, pc + 1, d)

\* treebidimap: Put(key, value), Remove(key) or Clear() on the map m.
treebidimapCall(m, method, key, value) ==
  treebidimapFrom(m, method, key, value, 1, Get(m.forwardMap, key))

\* treebidimap: func (m *Map[T, P]) Get(key T) (value P, found bool)
treebidimapGet(m, key) ==
  LET d == Get(m.forwardMap, key)
  IN IF d.found THEN [value |-> d.value, found |-> TRUE]
     ELSE [value |-> AnyEmptyKey, found |-> FALSE]

\* treebidimap: func (m *Map[T, P]) GetKey(value P) (key T, found bool)
treebidimapGetKey(m, value) ==
  LET d == Get(m.inverseMap, value)
  IN IF d.found THEN [key |-> d.value, found |-> TRUE]
     ELSE [key |-> AnyEmptyKey, found |-> FALSE]

\* treebidimap: func (m *Map[T, P]) Size() int
treebidimapSize(m) == Size(m.forwardMap)

\* hashmap: m.m[key] = value
hashmapPut(m, key, value) ==
  [k \in DOMAIN m \cup {key} |-> IF k = key THEN value ELSE m[k]]

\* hashmap: value, found = m.m[key]; the zero value when the key is absent.
hashmapGet(m, key) ==
  IF key \in DOMAIN m THEN [value |-> m[key], found |-> TRUE]
  ELSE [value |-> AnyEmptyKey, found |-> FALSE]

\* hashmap: delete(m.m, key)
hashmapRemove(m, key) == [k \in DOMAIN m \ {key} |-> m[k]]

\* hashmap: len(m.m)
hashmapSize(m) == Cardinality(DOMAIN m)

\* hashmap: m.m = make(map[T]P)
hashmapClear(m) == hashmapNew

\* Mutant: the pair that the key held stays in the inverse map.
hashbidimapPut_keyKept(m, key, value) ==
  LET keyByValue == hashmapGet(m.inverseMap, value)
      forward1 == IF keyByValue.found THEN hashmapRemove(m.forwardMap, keyByValue.value)
                  ELSE m.forwardMap
  IN [forwardMap |-> hashmapPut(forward1, key, value),
      inverseMap |-> hashmapPut(m.inverseMap, value, key)]

\* hashbidimap: func (m *Map[T, P]) Put(key T, value P)
hashbidimapPut(m, key, value) ==
  LET valueByKey == hashmapGet(m.forwardMap, key)
      inverse1 == IF valueByKey.found THEN hashmapRemove(m.inverseMap, valueByKey.value)
                  ELSE m.inverseMap
      keyByValue == hashmapGet(inverse1, value)
      forward1 == IF keyByValue.found THEN hashmapRemove(m.forwardMap, keyByValue.value)
                  ELSE m.forwardMap
  IN [forwardMap |-> hashmapPut(forward1, key, value),
      inverseMap |-> hashmapPut(inverse1, value, key)]

\* hashbidimap: func (m *Map[T, P]) Get(key T) (value P, found bool)
hashbidimapGet(m, key) == hashmapGet(m.forwardMap, key)

\* hashbidimap: func (m *Map[T, P]) GetKey(value P) (key T, found bool)
hashbidimapGetKey(m, value) ==
  LET d == hashmapGet(m.inverseMap, value)
  IN [key |-> d.value, found |-> d.found]

\* hashbidimap: func (m *Map[T, P]) Remove(key T)
hashbidimapRemove(m, key) ==
  LET value == hashmapGet(m.forwardMap, key)
  IN IF value.found
     THEN [forwardMap |-> hashmapRemove(m.forwardMap, key),
           inverseMap |-> hashmapRemove(m.inverseMap, value.value)]
     ELSE m

\* hashbidimap: func (m *Map[T, P]) Size() int
hashbidimapSize(m) == hashmapSize(m.forwardMap)

\* hashbidimap: func (m *Map[T, P]) Clear()
hashbidimapClear(m) ==
  [forwardMap |-> hashmapClear(m.forwardMap), inverseMap |-> hashmapClear(m.inverseMap)]

\* A call on a bidirectional map: on which of the two, its name, its
\* arguments and the size before it.
BidiCall(on, op, key, value, before) ==
  [on |-> on, op |-> op, key |-> key, value |-> value, before |-> before]

\* A call of Put, Remove or Clear of treebidimap; the live nodes of the two
\* trees are renumbered at the end.
TreeBidiStep(method, key, value) ==
  \E m \in {treebidimapCall(treebidimap, method, key, value)} :
    /\ treebidimap' = [forwardMap |-> Collect(m.forwardMap), inverseMap |-> Collect(m.inverseMap)]
    /\ call' = BidiCall("treebidimap", method, key, value, treebidimapSize(treebidimap))
    /\ UNCHANGED <<redblack, hashbidimap, avl, linkedhashmap, container>>

HashBidiPut(key, value) ==
  /\ hashbidimap' = hashbidimapPut(hashbidimap, key, value)
  /\ call' = BidiCall("hashbidimap", "Put", key, value, hashbidimapSize(hashbidimap))
  /\ UNCHANGED <<redblack, treebidimap, avl, linkedhashmap, container>>

HashBidiRemove(key) ==
  /\ hashbidimap' = hashbidimapRemove(hashbidimap, key)
  /\ call' = BidiCall("hashbidimap", "Remove", key, 0, hashbidimapSize(hashbidimap))
  /\ UNCHANGED <<redblack, treebidimap, avl, linkedhashmap, container>>

HashBidiClear ==
  /\ hashbidimap' = hashbidimapClear(hashbidimap)
  /\ call' = BidiCall("hashbidimap", "Clear", 0, 0, hashbidimapSize(hashbidimap))
  /\ UNCHANGED <<redblack, treebidimap, avl, linkedhashmap, container>>

NextBidi ==
  \/ \E key \in BidiKeySet, value \in BidiValueSet : TreeBidiStep("Put", key, value)
  \/ \E key \in BidiKeySet : TreeBidiStep("Remove", key, 0)
  \/ TreeBidiStep("Clear", 0, 0)
  \/ \E key \in BidiKeySet, value \in BidiValueSet : HashBidiPut(key, value)
  \/ \E key \in BidiKeySet : HashBidiRemove(key)
  \/ HashBidiClear

SpecBidi == Init /\ [][NextBidi]_vars

\* The pairs a bidirectional map holds, read through Get and through GetKey.
TreeForward(m) ==
  {<<k, treebidimapGet(m, k).value>> : k \in {k \in BidiKeySet : treebidimapGet(m, k).found}}

TreeInverse(m) ==
  {<<treebidimapGetKey(m, v).key, v>> : v \in {v \in BidiValueSet : treebidimapGetKey(m, v).found}}

HashForward(m) ==
  {<<k, hashbidimapGet(m, k).value>> : k \in {k \in BidiKeySet : hashbidimapGet(m, k).found}}

HashInverse(m) ==
  {<<hashbidimapGetKey(m, v).key, v>> : v \in {v \in BidiValueSet : hashbidimapGetKey(m, v).found}}

\* C23: after any sequence of Put, Remove and Clear on a bidirectional map,
\* tree-backed or hash-backed, Get(k) = (v, true) exactly when
\* GetKey(v) = (k, true); the two directions hold the same number of entries
\* and no value is mapped from two different keys.
C23_Inverse ==
  /\ \A k \in BidiKeySet, v \in BidiValueSet :
       /\ treebidimapGet(treebidimap, k) = [value |-> v, found |-> TRUE]
            <=> treebidimapGetKey(treebidimap, v) = [key |-> k, found |-> TRUE]
       /\ hashbidimapGet(hashbidimap, k) = [value |-> v, found |-> TRUE]
            <=> hashbidimapGetKey(hashbidimap, v) = [key |-> k, found |-> TRUE]
  /\ Size(treebidimap.forwardMap) = Size(treebidimap.inverseMap)
  /\ hashmapSize(hashbidimap.forwardMap) = hashmapSize(hashbidimap.inverseMap)
  /\ \A k1, k2 \in BidiKeySet :
       /\ treebidimapGet(treebidimap, k1).found /\ treebidimapGet(treebidimap, k2).found
          /\ treebidimapGet(treebidimap, k1).value = treebidimapGet(treebidimap, k2).value
          => k1 = k2
       /\ hashbidimapGet(hashbidimap, k1).found /\ hashbidimapGet(hashbidimap, k2).found
          /\ hashbidimapGet(hashbidimap, k1).value = hashbidimapGet(hashbidimap, k2).value
          => k1 = k2

\* The tree-backed map after a Put that displaced the pair of its key and
\* the pair of its value, the hash-backed one holding two pairs.
C23_Witness ==
  /\ call.op = "Put" /\ call.on = "treebidimap" /\ call.before = 2
  /\ treebidimapSize(treebidimap) = 1
  /\ hashbidimapSize(hashbidimap) = 2
  /\ TreeForward(treebidimap) = TreeInverse(treebidimap)
  /\ HashForward(hashbidimap) = HashInverse(hashbidimap)

\* The pairs that Put(key, value) leaves of the pairs held before it.
Surviving(pairs, key, value) ==
  {<<key, value>>} \cup {p \in pairs : p[1] # key /\ p[2] # value}

\* C24: Put(k, v) on a bidirectional map leaves the pair (k, v) and every
\* pair held before whose key is not k and whose value is not v, in both
\* directions; Get(k) = v, GetKey(v) = k and Size() is the number of these
\* pairs.
C24_PutStep ==
  /\ call'.op = "Put" /\ call'.on = "treebidimap" =>
       LET pairs == Surviving(TreeForward(treebidimap), call'.key, call'.value)
       IN /\ TreeForward(treebidimap') = pairs
          /\ TreeInverse(treebidimap') = pairs
          /\ treebidimapGet(treebidimap', call'.key) = [value |-> call'.value, found |-> TRUE]
          /\ treebidimapGetKey(treebidimap', call'.value) = [key |-> call'.key, found |-> TRUE]
          /\ treebidimapSize(treebidimap') = Cardinality(pairs)
  /\ call'.op = "Put" /\ call'.on = "hashbidimap" =>
       LET pairs == Surviving(HashForward(hashbidimap), call'.key, call'.value)
       IN /\ HashForward(hashbidimap') = pairs
          /\ HashInverse(hashbidimap') = pairs
          /\ hashbidimapGet(hashbidimap', call'.key) = [value |-> call'.value, found |-> TRUE]
          /\ hashbidimapGetKey(hashbidimap', call'.value) = [key |-> call'.key, found |-> TRUE]
          /\ hashbidimapSize(hashbidimap') = Cardinality(pairs)

C24_Put == [][C24_PutStep]_vars

\* The hash-backed map after a Put that displaced two pairs, the tree-backed
\* one holding two.
C24_Witness ==
  /\ call.op = "Put" /\ call.on = "hashbidimap" /\ call.before = 2
  /\ hashbidimapSize(hashbidimap) = 1
  /\ hashbidimapGet(hashbidimap, call.key) = [value |-> call.value, found |-> TRUE]
  /\ treebidimapSize(treebidimap) = 2

-----------------------------------------------------------------------------
\* Package avltree: Tree[int, string] under utils.IntComparator. The nodes
\* live in the arena avl.node; Children is the pair <<Children[0],
\* Children[1]>>, so that Children[a] of the source is Children[a + 1] here.

\* The nodes the AVL tree keeps alive, in the order a walk from the root
\* through Children and Parent meets them.
RECURSIVE avlWalk(_, _, _)
avlWalk(t, todo, seen) ==
  IF todo = << >> THEN seen
  ELSE LET n == Head(todo)
       IN IF n = Nil \/ \E i \in 1..Len(seen) : seen[i] = n
          THEN avlWalk(t, Tail(todo), seen)
          ELSE avlWalk(t, <<t.node[n].Children[1], t.node[n].Children[2], t.node[n].Parent>>
                          \o Tail(todo),
                       Append(seen, n))

avlLive(t) == avlWalk(t, <<t.Root>>, << >>)

avlLiveSet(t) == {avlLive(t)[i] : i \in 1..Len(avlLive(t))}

\* The handle a fresh allocation returns: the lowest one that is not alive.
avlAlloc(t) ==
  CHOOSE h \in AvlHandles \ avlLiveSet(t) : \A g \in AvlHandles \ avlLiveSet(t) : h <= g

\* Allocation and garbage collection, as for the red-black tree.
avlCollect(t) ==
  LET live == avlLive(t)
      to(h) == IF h = Nil THEN Nil ELSE CHOOSE i \in 1..Len(live) : live[i] = h
  IN [Root |-> to(t.Root),
      size |-> t.size,
      node |-> [h \in AvlHandles |->
                  IF h <= Len(live)
                  THEN [t.node[live[h]] EXCEPT !.Children = <<to(@[1]), to(@[2])>>,
                                               !.Parent = to(@)]
                  ELSE AvlFreeNode]]

\* A **Node: &t.Root, or &n.Children[a] for a node n.
RootSlot == [of |-> Nil, a |-> 0]
ChildSlot(n, a) == [of |-> n, a |-> a]

\* *qp
deref(t, qp) == IF qp.of = Nil THEN t.Root ELSE t.node[qp.of].Children[qp.a + 1]

\* *qp = n
assign(t, qp, n) ==
  IF qp.of = Nil THEN [t EXCEPT !.Root = n]
  ELSE [t EXCEPT !.node[qp.of].Children[qp.a + 1] = n]

\* a ^ 1 for a in {0, 1}
flip(a) == 1 - a

\* Mutant: the subtree that changes sides keeps its old parent.
rotate_childKept(t, c, s) ==
  LET a == (c + 1) \div 2
      r == t.node[s].Children[a + 1]
      t1 == [t EXCEPT !.node[s].Children[a + 1] = t.node[r].Children[flip(a) + 1]]
      t3 == [t1 EXCEPT !.node[r].Children[flip(a) + 1] = s]
      t4 == [t3 EXCEPT !.node[r].Parent = t3.node[s].Parent]
      t5 == [t4 EXCEPT !.node[s].Parent = r]
  IN [t |-> t5, s |-> r]

\* func rotate(c int8, s *Node) *Node: the tree after it and the node returned.
rotate(t, c, s) ==
  LET a == (c + 1) \div 2
      r == t.node[s].Children[a + 1]
      t1 == [t EXCEPT !.node[s].Children[a + 1] = t.node[r].Children[flip(a) + 1]]
      moved == t1.node[s].Children[a + 1]
      t2 == IF moved # Nil THEN [t1 EXCEPT !.node[moved].Parent = s] ELSE t1
      t3 == [t2 EXCEPT !.node[r].Children[flip(a) + 1] = s]
      t4 == [t3 EXCEPT !.node[r].Parent = t3.node[s].Parent]
      t5 == [t4 EXCEPT !.node[s].Parent = r]
  IN [t |-> t5, s |-> r]

\* Mutant: the balance factors are left as they were.
singlerot_unbalanced(t, c, s) == rotate(t, c, s)

\* func singlerot(c int8, s *Node) *Node
singlerot(t, c, s) ==
  LET t1 == [t EXCEPT !.node[s].b = 0]
      r == rotate(t1, c, s)
  IN [t |-> [r.t EXCEPT !.node[r.s].b = 0], s |-> r.s]

\* func doublerot(c int8, s *Node) *Node
doublerot(t, c, s) ==
  LET a == (c + 1) \div 2
      r == t.node[s].Children[a + 1]
      inner == rotate(t, 0 - c, t.node[s].Children[a + 1])
      t1 == [inner.t EXCEPT !.node[s].Children[a + 1] = inner.s]
      outer == rotate(t1, c, s)
      p == outer.s
      t2 == outer.t
      t3 == IF t2.node[p].b = c
            THEN [t2 EXCEPT !.node[s].b = 0 - c, !.node[r].b = 0]
            ELSE IF t2.node[p].b = 0 - c
                 THEN [t2 EXCEPT !.node[s].b = 0, !.node[r].b = c]
                 ELSE [t2 EXCEPT !.node[s].b = 0, !.node[r].b = 0]
  IN [t |-> [t3 EXCEPT !.node[p].b = 0], s |-> p]

\* func putFix(c int8, t **Node) bool: the tree after it and what it returns.
putFix(t, c, qp) ==
  LET s == deref(t, qp)
  IN IF t.node[s].b = 0
     THEN [t |-> [t EXCEPT !.node[s].b = c], fix |-> TRUE]
     ELSE IF t.node[s].b = 0 - c
          THEN [t |-> [t EXCEPT !.node[s].b = 0], fix |-> FALSE]
          ELSE LET r == IF t.node[t.node[s].Children[(c + 1) \div 2 + 1]].b = c
                        THEN singlerot(t, c, s)
                        ELSE doublerot(t, c, s)
               IN [t |-> assign(r.t, qp, r.s), fix |-> FALSE]

\* func removeFix(c int8, t **Node) bool
removeFix(t, c, qp) ==
  LET s == deref(t, qp)
      a == (c + 1) \div 2
  IN IF t.node[s].b = 0
     THEN [t |-> [t EXCEPT !.node[s].b = c], fix |-> FALSE]
     ELSE IF t.node[s].b = 0 - c
          THEN [t |-> [t EXCEPT !.node[s].b = 0], fix |-> TRUE]
          ELSE IF t.node[t.node[s].Children[a + 1]].b = 0
               THEN LET r == rotate(t, c, s)
                    IN [t |-> assign([r.t EXCEPT !.node[r.s].b = 0 - c], qp, r.s),
                        fix |-> FALSE]
               ELSE LET r == IF t.node[t.node[s].Children[a + 1]].b = c
                             THEN singlerot(t, c, s)
                             ELSE doublerot(t, c, s)
                    IN [t |-> assign(r.t, qp, r.s), fix |-> TRUE]

\* func (t *Tree) put(key, value, p *Node, qp **Node) bool
RECURSIVE put(_, _, _, _, _)
put(t, key, value, p, qp) ==
  LET q == deref(t, qp)
  IN IF q = Nil
     THEN LET n == avlAlloc(t)
              t1 == [t EXCEPT !.size = @ + 1]
              t2 == [t1 EXCEPT !.node[n] = [Key |-> key, Value |-> value, Parent |-> p,
                                            Children |-> <<Nil, Nil>>, b |-> 0]]
          IN [t |-> assign(t2, qp, n), fix |-> TRUE]
     ELSE LET compare == Comparator(key, t.node[q].Key)
          IN IF compare = 0
             THEN [t |-> [t EXCEPT !.node[q].Key = key, !.node[q].Value = value],
                   fix |-> FALSE]
             ELSE LET c == IF compare < 0 THEN 0 - 1 ELSE 1
                      a == (c + 1) \div 2
                      r == put(t, key, value, q, ChildSlot(q, a))
                  IN IF r.fix THEN putFix(r.t, c, qp) ELSE [t |-> r.t, fix |-> FALSE]

\* func removeMin(qp **Node, minKey *T, minVal *P) bool, where minKey and
\* minVal point to the Key and the Value of the node `into`.
RECURSIVE removeMin(_, _, _)
removeMin(t, qp, into) ==
  LET q == deref(t, qp)
  IN IF t.node[q].Children[1] = Nil
     THEN LET t1 == [t EXCEPT !.node[into].Key = t.node[q].Key]
              t2 == [t1 EXCEPT !.node[into].Value = t1.node[q].Value]
              right == t2.node[q].Children[2]
              t3 == IF right # Nil THEN [t2 EXCEPT !.node[right].Parent = t2.node[q].Parent]
                    ELSE t2
          IN [t |-> assign(t3, qp, t3.node[q].Children[2]), fix |-> TRUE]
     ELSE LET r == removeMin(t, ChildSlot(q, 0), into)
          IN IF r.fix THEN removeFix(r.t, 1, qp) ELSE [t |-> r.t, fix |-> FALSE]

\* func (t *Tree) remove(key, qp **Node) bool
RECURSIVE remove(_, _, _)
remove(t, key, qp) ==
  LET q == deref(t, qp)
  IN IF q = Nil
     THEN [t |-> t, fix |-> FALSE]
     ELSE LET compare == Comparator(key, t.node[q].Key)
          IN IF compare = 0
             THEN LET t1 == [t EXCEPT !.size = @ - 1]
                  IN IF t1.node[q].Children[2] = Nil
                     THEN LET left == t1.node[q].Children[1]
                              t2 == IF left # Nil
                                    THEN [t1 EXCEPT !.node[left].Parent = t1.node[q].Parent]
                                    ELSE t1
                          IN [t |-> assign(t2, qp, t2.node[q].Children[1]), fix |-> TRUE]
                     ELSE LET r == removeMin(t1, ChildSlot(q, 1), q)
                          IN IF r.fix THEN removeFix(r.t, 0 - 1, qp)
                             ELSE [t |-> r.t, fix |-> FALSE]
             ELSE LET c == IF compare < 0 THEN 0 - 1 ELSE 1
                      a == (c + 1) \div 2
                      r == remove(t, key, ChildSlot(q, a))
                  IN IF r.fix THEN removeFix(r.t, 0 - c, qp) ELSE [t |-> r.t, fix |-> FALSE]

\* func (t *Tree) Put(key T, value P)
avlPut(t, key, value) == put(t, key, value, Nil, RootSlot).t

\* func (t *Tree) Remove(key T)
avlRemove(t, key) == remove(t, key, RootSlot).t

\* func (t *Tree) Get(key T) (value P, found bool)
RECURSIVE avlGetFrom(_, _, _)
avlGetFrom(t, n, key) ==
  IF n = Nil THEN [value |-> AnyEmpty, found |-> FALSE]
  ELSE LET cmp == Comparator(key, t.node[n].Key)
       IN IF cmp = 0 THEN [value |-> t.node[n].Value, found |-> TRUE]
          ELSE IF cmp < 0 THEN avlGetFrom(t, t.node[n].Children[1], key)
               ELSE avlGetFrom(t, t.node[n].Children[2], key)

avlGet(t, key) == avlGetFrom(t, t.Root, key)

\* walk1: the descent along Children[a ^ 1].
RECURSIVE walkDown(_, _, _)
walkDown(t, n, a) ==
  IF t.node[n].Children[flip(a) + 1] # Nil
  THEN walkDown(t, t.node[n].Children[flip(a) + 1], a)
  ELSE n

\* walk1: the climb while the node is the child a of its parent.
RECURSIVE walkUp(_, _, _, _)
walkUp(t, n, p, a) ==
  IF p # Nil /\ t.node[p].Children[a + 1] = n
  THEN walkUp(t, p, t.node[p].Parent, a)
  ELSE p

\* func (n *Node) walk1(a int) *Node
walk1(t, n, a) ==
  IF n = Nil THEN Nil
  ELSE IF t.node[n].Children[a + 1] # Nil
       THEN walkDown(t, t.node[n].Children[a + 1], a)
       ELSE walkUp(t, n, t.node[n].Parent, a)

\* func (n *Node) Prev() *Node
avlPrev(t, n) == walk1(t, n, 0)

\* func (n *Node) Next() *Node
avlNext(t, n) == walk1(t, n, 1)

\* A call on the AVL tree: its name, its key and whether the key was stored.
AvlCall(op, key) == [op |-> op, on |-> "avltree", key |-> key, found |-> avlGet(avl, key).found]

AvlPutStep(key, value) ==
  /\ avl' = avlCollect(avlPut(avl, key, value))
  /\ call' = AvlCall("Put", key)
  /\ UNCHANGED <<redblack, treebidimap, hashbidimap, linkedhashmap, container>>

AvlRemoveStep(key) ==
  /\ avl' = avlCollect(avlRemove(avl, key))
  /\ call' = AvlCall("Remove", key)
  /\ UNCHANGED <<redblack, treebidimap, hashbidimap, linkedhashmap, container>>

NextAvl ==
  \/ \E key \in AvlKeySet : AvlPutStep(key, "x")
  \/ \E key \in AvlKeySet : AvlRemoveStep(key)

SpecAvl == Init /\ [][NextAvl]_vars

\* The nodes of the AVL tree reached from the root through Children.
RECURSIVE avlBelow(_, _)
avlBelow(t, n) ==
  IF n = Nil THEN {}
  ELSE {n} \cup avlBelow(t, t.node[n].Children[1]) \cup avlBelow(t, t.node[n].Children[2])

avlNodes == avlBelow(avl, avl.Root)

\* The height of the subtree of n: the number of nodes on its longest path.
RECURSIVE avlHeight(_, _)
avlHeight(t, n) ==
  IF n = Nil THEN 0
  ELSE LET l == avlHeight(t, t.node[n].Children[1])
           r == avlHeight(t, t.node[n].Children[2])
       IN 1 + (IF l > r THEN l ELSE r)

\* C25: after any sequence of Put and Remove on the AVL tree the heights of
\* the two subtrees of every node differ by at most one, and the node's
\* balance factor b is the height of the right subtree minus the height of
\* the left one, hence in {-1, 0, 1}.
C25_Balanced ==
  \A n \in avlNodes :
    LET l == avlHeight(avl, avl.node[n].Children[1])
        r == avlHeight(avl, avl.node[n].Children[2])
    IN /\ r - l \in {0 - 1, 0, 1}
       /\ avl.node[n].b = r - l
       /\ avl.node[n].b \in {0 - 1, 0, 1}

\* A tree of height 4 after a Remove of a stored key, with a node that leans
\* left and one that leans right.
C25_Witness ==
  /\ call.op = "Remove" /\ call.on = "avltree" /\ call.found
  /\ avlHeight(avl, avl.Root) = 4
  /\ \E n, m \in avlNodes : avl.node[n].b = 0 - 1 /\ avl.node[m].b = 1

\* C26: after any sequence of Put and Remove on the AVL tree, n.Next() is
\* the node with the smallest key above n's key, nil for the maximum, and
\* n.Prev() the node with the largest key below it, nil for the minimum;
\* every child's Parent is its parent and the root has none.
C26_NextPrev ==
  /\ avl.Root # Nil => avl.node[avl.Root].Parent = Nil
  /\ \A n \in avlNodes : \A a \in {1, 2} :
       avl.node[n].Children[a] # Nil => avl.node[avl.node[n].Children[a]].Parent = n
  /\ \A n \in avlNodes :
       LET above == {m \in avlNodes : avl.node[m].Key > avl.node[n].Key}
           below == {m \in avlNodes : avl.node[m].Key < avl.node[n].Key}
           next == avlNext(avl, n)
           prev == avlPrev(avl, n)
       IN /\ IF above = {} THEN next = Nil
             ELSE next \in above /\ \A m \in above : avl.node[next].Key <= avl.node[m].Key
          /\ IF below = {} THEN prev = Nil
             ELSE prev \in below /\ \A m \in below : avl.node[prev].Key >= avl.node[m].Key
  /\ avlNext(avl, Nil) = Nil /\ avlPrev(avl, Nil) = Nil

\* A tree of six keys after a Remove of a stored key, where the successor of
\* a node is reached by climbing and the predecessor of another by
\* descending.
C26_Witness ==
  /\ call.op = "Remove" /\ call.on = "avltree" /\ call.found
  /\ avl.size = 6
  /\ \E n \in avlNodes :
       /\ avl.node[n].Children[2] = Nil
       /\ avlNext(avl, n) # Nil /\ avlNext(avl, n) # avl.node[n].Parent
  /\ \E n \in avlNodes :
       /\ avl.node[n].Children[1] # Nil
       /\ avlPrev(avl, n) # avl.node[n].Children[1]

-----------------------------------------------------------------------------
\* Package linkedhashmap: Map[int, string], a Go map `table` and a
\* doublylinkedlist.List `ordering` of the keys. The list is a sequence here;
\* its indices start at 0 in the source and at 1 in the sequence.

\* The keys put are 0..MaxLinkedKey; the values are those of ValueSet.
MaxLinkedKey == 3
LinkedKeySet == 0..MaxLinkedKey

\* doublylinkedlist: func (list *List[T]) Append(values ...T), with one value
listAppend(list, value) == Append(list, value)

\* doublylinkedlist: func (list *List[T]) IndexOf(value T) int
listIndexOf(list, value) ==
  IF \E i \in 1..Len(list) : list[i] = value
  THEN (CHOOSE i \in 1..Len(list) :
          list[i] = value /\ \A j \in 1..(i - 1) : list[j] # value) - 1
  ELSE 0 - 1

\* doublylinkedlist: func (list *List[T]) Remove(index int)
listRemove(list, index) ==
  IF index < 0 \/ index >= Len(list) THEN list
  ELSE SubSeq(list, 1, index) \o SubSeq(list, index + 2, Len(list))

\* doublylinkedlist: func (list *List[T]) Size() int
listSize(list) == Len(list)

\* doublylinkedlist: func (list *List[T]) Values() []T
listValues(list) == list

\* doublylinkedlist: func (list *List[T]) Clear()
listClear(list) == << >>

\* Mutant: the key is appended whether or not the table holds it.
linkedhashmapPut_appending(m, key, value) ==
  [table |-> hashmapPut(m.table, key, value), ordering |-> listAppend(m.ordering, key)]

\* linkedhashmap: func (m *Map[T, P]) Put(key T, value P)
linkedhashmapPut(m, key, value) ==
  LET ordering1 == IF key \notin DOMAIN m.table THEN listAppend(m.ordering, key)
                   ELSE m.ordering
  IN [table |-> hashmapPut(m.table, key, value), ordering |-> ordering1]

\* linkedhashmap: func (m *Map[T, P]) Get(key T) (value P, found bool)
linkedhashmapGet(m, key) ==
  IF key \in DOMAIN m.table THEN [value |-> m.table[key], found |-> TRUE]
  ELSE [value |-> AnyEmpty, found |-> FALSE]

\* linkedhashmap: func (m *Map[T, P]) Remove(key T)
linkedhashmapRemove(m, key) ==
  IF key \in DOMAIN m.table
  THEN LET index == listIndexOf(m.ordering, key)
       IN [table |-> hashmapRemove(m.table, key), ordering |-> listRemove(m.ordering, index)]
  ELSE m

\* linkedhashmap: func (m *Map[T, P]) Size() int
linkedhashmapSize(m) == listSize(m.ordering)

\* linkedhashmap: func (m *Map[T, P]) Keys() []T
linkedhashmapKeys(m) == listValues(m.ordering)

\* linkedhashmap: func (m *Map[T, P]) Clear()
linkedhashmapClear(m) == [table |-> hashmapNew, ordering |-> listClear(m.ordering)]

\* A call on the linked hash map: its name, its arguments, whether the table
\* held the key, and the keys put so far.
LinkedCall(op, key, value) ==
  [op |-> op, on |-> "linkedhashmap", key |-> key, value |-> value,
   found |-> key \in DOMAIN linkedhashmap.table,
   seen |-> (IF call.on = "linkedhashmap" THEN call.seen ELSE {})
            \cup (IF op = "Put" THEN {key} ELSE {}),
   again |-> op = "Put" /\ call.on = "linkedhashmap" /\ key \in call.seen
             /\ key \notin DOMAIN linkedhashmap.table]

LinkedPut(key, value) ==
  /\ linkedhashmap' = linkedhashmapPut(linkedhashmap, key, value)
  /\ call' = LinkedCall("Put", key, value)
  /\ UNCHANGED <<redblack, treebidimap, hashbidimap, avl, container>>

LinkedRemove(key) ==
  /\ linkedhashmap' = linkedhashmapRemove(linkedhashmap, key)
  /\ call' = LinkedCall("Remove", key, AnyEmpty)
  /\ UNCHANGED <<redblack, treebidimap, hashbidimap, avl, container>>

LinkedClear ==
  /\ linkedhashmap' = linkedhashmapClear(linkedhashmap)
  /\ call' = LinkedCall("Clear", 0, AnyEmpty)
  /\ UNCHANGED <<redblack, treebidimap, hashbidimap, avl, container>>

NextLinked ==
  \/ \E key \in LinkedKeySet, value \in ValueSet : LinkedPut(key, value)
  \/ \E key \in LinkedKeySet : LinkedRemove(key)
  \/ LinkedClear

SpecLinked == Init /\ [][NextLinked]_vars

\* The sequence without its elements equal to key.
Without(keys, key) == SelectSeq(keys, LAMBDA k : k # key)

\* How one call changes Keys(): a Put of a new key appends it, a Put of a key
\* the table holds keeps the order and stores the value, a Remove takes the
\* key out and keeps the order of the others, and a key that was put, removed
\* and is put again is last.
C27_OrderStep ==
  LET keys == linkedhashmapKeys(linkedhashmap)
      keys1 == linkedhashmapKeys(linkedhashmap')
  IN /\ call'.op = "Put" /\ ~call'.found => keys1 = Append(keys, call'.key)
     /\ call'.op = "Put" /\ call'.found => keys1 = keys
     /\ call'.op = "Put" =>
          linkedhashmapGet(linkedhashmap', call'.key) = [value |-> call'.value, found |-> TRUE]
     /\ call'.op = "Put" /\ call'.again => keys1[Len(keys1)] = call'.key
     /\ call'.op = "Remove" => keys1 = Without(keys, call'.key)
     /\ call'.op = "Clear" => keys1 = << >>

\* C27: after any sequence of Put, Remove and Clear on the linked hash map,
\* Keys() lists the keys of the table, each once, and Size() is their number;
\* the keys are in the order of their insertion: a Put of a key already
\* present updates its value without moving it, and a key removed and put
\* again is at the end.
C27_InsertionOrder ==
  /\ [](LET keys == linkedhashmapKeys(linkedhashmap)
        IN /\ Range(keys) = DOMAIN linkedhashmap.table
           /\ \A i, j \in 1..Len(keys) : keys[i] = keys[j] => i = j
           /\ linkedhashmapSize(linkedhashmap) = Cardinality(DOMAIN linkedhashmap.table))
  /\ [][C27_OrderStep]_vars

\* Key 0 was put first, removed and put again: it is last of three keys.
C27_Witness ==
  /\ call.op = "Put" /\ call.on = "linkedhashmap" /\ call.again /\ call.key = 0
  /\ linkedhashmapKeys(linkedhashmap) = <<2, 1, 0>>
  /\ linkedhashmapSize(linkedhashmap) = 3

-----------------------------------------------------------------------------
\* Example redblacktreeextended: a red-black tree with RemoveMin and
\* RemoveMax, RedBlackTreeExtended[int, string]. It is the tree of the
\* variables Root, size and node.

\* The keys put are 1..MaxExtendedKey.
MaxExtendedKey == 5
ExtendedKeySet == 1..MaxExtendedKey

\* The values that main puts under the keys 1..5.
Letters == <<"a", "b", "c", "d", "e">>

\* The values put under a key: the one main puts, and another one.
ExtendedValues(key) == {"x"} \cup (IF key <= Len(Letters) THEN {Letters[key]} ELSE {})

\* func (tree *RedBlackTreeExtended) getMinFromNode(node) (foundNode, found)
RECURSIVE getMinFromNode(_, _)
getMinFromNode(t, n) ==
  IF n = Nil THEN [foundNode |-> Nil, found |-> FALSE]
  ELSE IF t.node[n].Left = Nil THEN [foundNode |-> n, found |-> TRUE]
       ELSE getMinFromNode(t, t.node[n].Left)

\* Mutant: the node given is taken for the maximum.
getMaxFromNode_noDescent(t, n) ==
  IF n = Nil THEN [foundNode |-> Nil, found |-> FALSE]
  ELSE [foundNode |-> n, found |-> TRUE]

\* func (tree *RedBlackTreeExtended) getMaxFromNode(node) (foundNode, found)
RECURSIVE getMaxFromNode(_, _)
getMaxFromNode(t, n) ==
  IF n = Nil THEN [foundNode |-> Nil, found |-> FALSE]
  ELSE IF t.node[n].Right = Nil THEN [foundNode |-> n, found |-> TRUE]
       ELSE getMaxFromNode(t, t.node[n].Right)

\* RemoveMin and RemoveMax after the search, r being what it returned: the
\* tree after tree.Remove(node.Key), unchanged when nothing was found.
RemoveFound(t, r) == IF r.found THEN Remove(t, t.node[r.foundNode].Key) ELSE t

\* return node.Value, found, the value being read from the node after the
\* Remove, in the tree t1; return nil, false when nothing was found.
ReturnFound(t1, r) ==
  IF r.found THEN [value |-> Interface(t1.node[r.foundNode].Value), deleted |-> r.found]
  ELSE [value |-> NilInterface, deleted |-> FALSE]

\* How far the calls made since the tree was built have followed main:
\* Put(1, "a") .. Put(5, "e"), RemoveMin, RemoveMax, RemoveMin, RemoveMax.
\* Off once a call departs from it.
Off == 0 - 1
ScriptAt == IF call.on = "redblacktreeextended" THEN call.script ELSE 0

ExtendedCall(op, key, value, deleted, script) ==
  [op |-> op, on |-> "redblacktreeextended", key |-> key, value |-> value,
   deleted |-> deleted, script |-> script]

ExtendedPut(key, value) ==
  /\ PutCall(key, value)
  /\ run' = RunAt(iterator.position)
  /\ call' = ExtendedCall("Put", key, Interface(value), FALSE,
                          IF key <= Len(Letters) /\ ScriptAt = key - 1 /\ value = Letters[key]
                          THEN key ELSE Off)
  /\ UNCHANGED <<iterator, trip, treebidimap, hashbidimap, avl, linkedhashmap, container>>

\* RemoveMin or RemoveMax, `found` being what its search returned and `at`
\* the steps of main at which it is called.
ExtendedRemove(op, found, at) ==
  \E t1 \in {RemoveFound(Tree, found)} :
    /\ call' = ExtendedCall(op, IF found.found THEN node[found.foundNode].Key ELSE 0,
                            ReturnFound(t1, found).value, ReturnFound(t1, found).deleted,
                            IF ScriptAt \in at THEN ScriptAt + 1 ELSE Off)
    /\ IF found.found
       THEN /\ M' = [k \in DOMAIN M \ {node[found.foundNode].Key} |-> M[k]]
            /\ last' = RemoveLast(node[found.foundNode].Key)
            /\ Store(t1)
            /\ run' = RunAt(iterator.position)
       ELSE UNCHANGED <<Root, size, node, M, last, run>>
    /\ UNCHANGED <<iterator, trip, treebidimap, hashbidimap, avl, linkedhashmap, container>>

\* func (tree *RedBlackTreeExtended) RemoveMin() (value interface{}, deleted bool)
RemoveMinStep ==
  \E found \in {getMinFromNode(Tree, Root)} :
    ExtendedRemove("RemoveMin", found, {Len(Letters), Len(Letters) + 2})

\* func (tree *RedBlackTreeExtended) RemoveMax() (value interface{}, deleted bool)
RemoveMaxStep ==
  \E found \in {getMaxFromNode(Tree, Root)} :
    ExtendedRemove("RemoveMax", found, {Len(Letters) + 1, Len(Letters) + 3})

NextExtended ==
  \/ \E key \in ExtendedKeySet : \E value \in ExtendedValues(key) : ExtendedPut(key, value)
  \/ RemoveMinStep
  \/ RemoveMaxStep

SpecExtended == Init /\ [][NextExtended]_vars

\* The keys a tree stores.
KeysOf(t) == {t.node[n].Key : n \in Below(t, {t.Root} \ {Nil})}

\* What RemoveMin or RemoveMax does when `key` is the key it is to remove.
Removes(key) ==
  LET after == [Root |-> Root', size |-> size', node |-> node']
  IN /\ call'.value = Interface(Get(Tree, key).value)
     /\ call'.deleted
     /\ KeysOf(after) = KeysOf(Tree) \ {key}
     /\ \A k \in KeysOf(after) : Get(after, k) = Get(Tree, k)
     /\ size' = size - 1

\* A call of RemoveMin or RemoveMax: on an empty tree it returns (nil, false)
\* and changes nothing, otherwise it removes the least or the greatest key
\* only and returns the value the key had, and true.
C28_RemoveStep ==
  call'.op \in {"RemoveMin", "RemoveMax"} =>
    IF KeysOf(Tree) = {}
    THEN /\ call'.value = NilInterface /\ ~call'.deleted
         /\ UNCHANGED <<Root, size, node>>
    ELSE IF call'.op = "RemoveMin"
         THEN Removes(CHOOSE k \in KeysOf(Tree) : \A j \in KeysOf(Tree) : k <= j)
         ELSE Removes(CHOOSE k \in KeysOf(Tree) : \A j \in KeysOf(Tree) : k >= j)

\* C28: on a tree built by Puts, RemoveMin removes exactly the minimum key
\* and RemoveMax exactly the maximum key, returning the value the key had
\* and true; on an empty tree they return (nil, false) and change nothing.
\* After Put(1, "a") .. Put(5, "e") the minimum is (1, "a") and the maximum
\* (5, "e"), and after RemoveMin, RemoveMax, RemoveMin, RemoveMax the tree
\* holds key 3 with value "c" only.
C28_RemoveMinMax ==
  /\ [](ScriptAt = Len(Letters) =>
          /\ MapMin(Tree) = [key |-> 1, value |-> "a"]
          /\ MapMax(Tree) = [key |-> Interface(5), value |-> Interface("e")])
  /\ [](ScriptAt = Len(Letters) + 4 =>
          /\ KeysOf(Tree) = {3} /\ size = 1
          /\ Keys(Tree).keys = <<3>>
          /\ Get(Tree, 3) = [value |-> "c", found |-> TRUE])
  /\ [][C28_RemoveStep]_vars

\* The calls of main have been made, the last one a RemoveMax that returned
\* "d".
C28_Witness ==
  /\ ScriptAt = Len(Letters) + 4
  /\ call.op = "RemoveMax" /\ call.value = Interface("d") /\ call.deleted
  /\ size = 1

-----------------------------------------------------------------------------
\* Package containers: GetSortedValues over a container of ints under
\* utils.IntComparator. A slice is a sequence; index i of the source is
\* index i + 1 here.

\* The containers hold up to MaxSortLen values out of 1..MaxSortValue.
MaxSortLen == 5
MaxSortValue == 5
SortValueSet == 1..MaxSortValue

\* func (s sortable[P]) Len() int
sortableLen(values) == Len(values)

\* func (s sortable[P]) Swap(i, j int)
sortableSwap(values, i, j) ==
  [values EXCEPT ![i + 1] = values[j + 1], ![j + 1] = values[i + 1]]

\* Mutant: an element is less when it compares greater.
sortableLess_greater(values, i, j) == Comparator(values[i + 1], values[j + 1]) > 0

\* func (s sortable[P]) Less(i, j int) bool
sortableLess(values, i, j) == Comparator(values[i + 1], values[j + 1]) < 0

\* sort.Sort on a slice of at most 12 elements is an insertion sort:
\* for j := i; j > a && data.Less(j, j-1); j-- { data.Swap(j, j-1) }
RECURSIVE insertionInner(_, _, _)
insertionInner(values, j, a) ==
  IF j > a /\ sortableLess(values, j, j - 1)
  THEN insertionInner(sortableSwap(values, j, j - 1), j - 1, a)
  ELSE values

\* for i := a + 1; i < b; i++ { ... }
RECURSIVE insertionSort(_, _, _, _)
insertionSort(values, i, a, b) ==
  IF i < b THEN insertionSort(insertionInner(values, i, a), i + 1, a, b)
  ELSE values

\* sort.Sort(data)
sortSort(values) == insertionSort(values, 1, 0, sortableLen(values))

\* utils: func Sort[P any](values []P, comparator Comparator)
Sort(values) == sortSort(values)

\* containers: func GetSortedValues(container, comparator): the values of
\* the container, sorted by utils.Sort when there are two or more.
GetSortedValues(values) == IF Len(values) < 2 THEN values ELSE Sort(values)

\* One more value is given to the container.
ContainerAdd(value) ==
  /\ Len(container.values) < MaxSortLen
  /\ container' = [values |-> Append(container.values, value), sorted |-> << >>]
  /\ call' = [op |-> "Add", on |-> "containers"]
  /\ UNCHANGED <<redblack, treebidimap, hashbidimap, avl, linkedhashmap>>

\* GetSortedValues is called on the container.
GetSortedValuesStep ==
  /\ container' = [container EXCEPT !.sorted = GetSortedValues(container.values)]
  /\ call' = [op |-> "GetSortedValues", on |-> "containers"]
  /\ UNCHANGED <<redblack, treebidimap, hashbidimap, avl, linkedhashmap>>

NextSorted ==
  \/ \E value \in SortValueSet : ContainerAdd(value)
  \/ GetSortedValuesStep

SpecSorted == Init /\ [][NextSorted]_vars

\* How many times a value occurs in a sequence.
Occurrences(values, v) == Cardinality({i \in 1..Len(values) : values[i] = v})

\* C29: GetSortedValues returns the values of the container in
\* non-decreasing order under the comparator: no element compares greater
\* than the one after it; they are the container's values, each as many
\* times as the container holds it.
C29_Sorted ==
  call.op = "GetSortedValues" =>
    /\ \A i \in 2..Len(container.sorted) :
         Comparator(container.sorted[i - 1], container.sorted[i]) <= 0
    /\ Len(container.sorted) = Len(container.values)
    /\ \A v \in SortValueSet :
         Occurrences(container.sorted, v) = Occurrences(container.values, v)

\* The container of TestGetSortedValuesInts.
C29_Witness ==
  /\ call.op = "GetSortedValues"
  /\ container.values = <<5, 1, 3, 2, 4>>
  /\ container.sorted = <<1, 2, 3, 4, 5>>

-----------------------------------------------------------------------------
\* The height of the red-black tree.

\* The number of nodes on the longest path from n down to a leaf.
RECURSIVE Height(_, _)
Height(t, n) ==
  IF n = Nil THEN 0
  ELSE LET l == Height(t, t.node[n].Left)
           r == Height(t, t.node[n].Right)
       IN 1 + (IF l > r THEN l ELSE r)

\* C30: after any sequence of Put and Remove the height h of the red-black
\* tree is at most 2 * log2(n + 1) for n = Size(): 2^h <= (n + 1)^2.
C30_Height == 2 ^ Height(Tree, Root) <= (Size(Tree) + 1) * (Size(Tree) + 1)

\* A tree of height 4 with six keys, after a Remove.
C30_Witness ==
  /\ last.op = "Remove" /\ last.found
  /\ Size(Tree) = 6
  /\ Height(Tree, Root) = 4

-----------------------------------------------------------------------------
\* Put and Remove one step at a time: the descent loop of Put, the calls of
\* insertCase1 and of deleteCase1 and the end of Remove are steps of their
\* own, so that a loop or a recursion that never ends is a behaviour that
\* never returns. `call` holds where the call is (pc), its locals and, for
\* the properties, how many times the fix-up has moved up (ups), whether it
\* went on to insertCase4 or deleteCase4 (rotates) and the tree that Put or
\* Remove returns when applied in one go (expect).

\* Under SpecFix the keys put and removed are 0..MaxFixKey.
MaxFixKey == 6
FixKeySet == 0..MaxFixKey

\* No call is under way.
Returned == IF call.op = "New" THEN TRUE ELSE call.pc = "return"

\* The number of nodes above n.
RECURSIVE Depth(_, _)
Depth(t, n) == IF t.node[n].Parent = Nil THEN 0 ELSE 1 + Depth(t, t.node[n].Parent)

\* Put, lines 66-72 and 74: an empty tree takes the new node as its root,
\* another one is entered at its root.
putStart(t, key, value) ==
  IF t.Root = Nil
  THEN [t |-> [t EXCEPT !.node[Alloc(t)] = NewNode(key, value), !.Root = Alloc(t)],
        pc |-> "insertCase1", n |-> Alloc(t)]
  ELSE [t |-> t, pc |-> "loop", n |-> t.Root]

\* Put, lines 76-99: one turn of the loop with `node` at n. The turn that
\* leaves the loop also sets insertedNode.Parent (line 100).
putLoop(t, n, key, value) ==
  LET compare == Comparator(key, t.node[n].Key)
      \* insertedNode := &Node{Key: key, Value: value, color: red}, linked
      \* below n as its Left or its Right
      inserted(child) ==
        CHOOSE r \in
          {[t |-> [t EXCEPT !.node[insertedNode] = NewNode(key, value),
                            !.node[n][child] = insertedNode,
                            !.node[insertedNode].Parent = n],
            pc |-> "insertCase1", n |-> insertedNode] : insertedNode \in {Alloc(t)}} : TRUE
  IN IF compare = 0
     THEN [t |-> overwrite(t, n, key, value), pc |-> "return", n |-> Nil]
     ELSE IF compare < 0
     THEN IF t.node[n].Left = Nil
          THEN inserted("Left")
          ELSE [t |-> t, pc |-> "loop", n |-> t.node[n].Left]
     ELSE IF t.node[n].Right = Nil
          THEN inserted("Right")
          ELSE [t |-> t, pc |-> "loop", n |-> t.node[n].Right]

\* Mutant: insertCase3 calls insertCase1 on the node it was given.
insertCase1Step_sameNode(t, n) ==
  IF t.node[n].Parent = Nil
  THEN [t |-> [t EXCEPT !.node[n].color = black, !.size = @ + 1], pc |-> "return", n |-> Nil]
  ELSE IF nodeColor(t, t.node[n].Parent) = black
  THEN [t |-> [t EXCEPT !.size = @ + 1], pc |-> "return", n |-> Nil]
  ELSE IF nodeColor(t, uncle(t, n)) = red
  THEN [t |-> [t EXCEPT !.node[t.node[n].Parent].color = black,
                        !.node[uncle(t, n)].color = black,
                        !.node[grandparent(t, n)].color = red],
        pc |-> "insertCase1", n |-> n]
  ELSE [t |-> t, pc |-> "insertCase4", n |-> n]

\* One call of insertCase1 (lines 383-408) on n, up to the call of
\* insertCase1 that insertCase3 makes on the grandparent, or up to the call
\* of insertCase4; at the root and at a black parent the fix-up is over and
\* Put ends with tree.size++ (line 103).
insertCase1Step(t, n) ==
  IF t.node[n].Parent = Nil
  THEN [t |-> [t EXCEPT !.node[n].color = black, !.size = @ + 1], pc |-> "return", n |-> Nil]
  ELSE IF nodeColor(t, t.node[n].Parent) = black
  THEN [t |-> [t EXCEPT !.size = @ + 1], pc |-> "return", n |-> Nil]
  ELSE IF nodeColor(t, uncle(t, n)) = red
  THEN [t |-> [t EXCEPT !.node[t.node[n].Parent].color = black,
                        !.node[uncle(t, n)].color = black,
                        !.node[grandparent(t, n)].color = red],
        pc |-> "insertCase1", n |-> grandparent(t, n)]
  ELSE [t |-> t, pc |-> "insertCase4", n |-> n]

\* One call of insertCase4 (lines 410-420) on n, up to the call of
\* insertCase5 on the node that is the lower one after the rotation.
insertCase4Step(t, n) ==
  LET gp == grandparent(t, n)
      p == t.node[n].Parent
  IN IF n = t.node[p].Right /\ p = t.node[gp].Left
     THEN CHOOSE r \in {[t |-> t1, pc |-> "insertCase5", n |-> t1.node[n].Left]
                          : t1 \in {rotateLeft(t, p)}} : TRUE
     ELSE IF n = t.node[p].Left /\ p = t.node[gp].Right
     THEN CHOOSE r \in {[t |-> t1, pc |-> "insertCase5", n |-> t1.node[n].Right]
                          : t1 \in {rotateRight(t, p)}} : TRUE
     ELSE [t |-> t, pc |-> "insertCase5", n |-> n]

\* Remove, lines 121-141: up to the call of deleteCase1 on the node to unlink
\* (locals `node` and `child`), or up to replaceNode when that node is red.
removeStart(t, key) ==
  LET found == lookup(t, key)
      t1 == takePred(t, found)
      v == victim(t, found)
      child == IF t1.node[v].Right = Nil THEN t1.node[v].Left ELSE t1.node[v].Right
  IN IF found = Nil
     THEN [t |-> t, pc |-> "return", node |-> Nil, child |-> Nil]
     ELSE IF t1.node[v].color = black
     THEN [t |-> [t1 EXCEPT !.node[v].color = nodeColor(t1, child)],
           pc |-> "deleteCase1", node |-> v, child |-> child]
     ELSE [t |-> t1, pc |-> "replaceNode", node |-> v, child |-> child]

\* deleteCase2, lines 451-460: the rotation that makes a red sibling black.
deleteCase2Rotation(t, n) ==
  IF nodeColor(t, sibling(t, n)) = red
  THEN LET t1 == [t EXCEPT !.node[t.node[n].Parent].color = red]
           t2 == [t1 EXCEPT !.node[sibling(t, n)].color = black]
       IN IF n = t2.node[t2.node[n].Parent].Left
          THEN rotateLeft(t2, t2.node[n].Parent)
          ELSE rotateRight(t2, t2.node[n].Parent)
  ELSE t

\* One call of deleteCase1 (lines 443-475) on n, up to the call of
\* deleteCase1 that deleteCase3 makes on the parent, or up to the call of
\* deleteCase4; at the root the fix-up is over and Remove goes on with
\* replaceNode.
deleteCase1Step(t, n) ==
  IF t.node[n].Parent = Nil
  THEN [t |-> t, pc |-> "replaceNode", n |-> Nil]
  ELSE CHOOSE r \in
         {LET s == sibling(t1, n)
          IN IF /\ nodeColor(t1, t1.node[n].Parent) = black
                /\ nodeColor(t1, s) = black
                /\ nodeColor(t1, t1.node[s].Left) = black
                /\ nodeColor(t1, t1.node[s].Right) = black
             THEN [t |-> [t1 EXCEPT !.node[s].color = red],
                   pc |-> "deleteCase1", n |-> t1.node[n].Parent]
             ELSE [t |-> t1, pc |-> "deleteCase4", n |-> n]
            : t1 \in {deleteCase2Rotation(t, n)}} : TRUE

\* One call of deleteCase4 (lines 477-489) on n, up to the call of
\* deleteCase5.
deleteCase4Step(t, n) ==
  LET s == sibling(t, n)
  IN IF /\ nodeColor(t, t.node[n].Parent) = red
        /\ nodeColor(t, s) = black
        /\ nodeColor(t, t.node[s].Left) = black
        /\ nodeColor(t, t.node[s].Right) = black
     THEN [t |-> [t EXCEPT !.node[s].color = red, !.node[t.node[n].Parent].color = black],
           pc |-> "replaceNode", n |-> Nil]
     ELSE [t |-> t, pc |-> "deleteCase5", n |-> n]

\* One call of deleteCase5 (lines 491-510) on n, up to the call of
\* deleteCase6.
deleteCase5Step(t, n) ==
  LET s == sibling(t, n)
      p == t.node[n].Parent
  IN IF /\ n = t.node[p].Left
        /\ nodeColor(t, s) = black
        /\ nodeColor(t, t.node[s].Left) = red
        /\ nodeColor(t, t.node[s].Right) = black
     THEN CHOOSE t3 \in {rotateRight(t2, s) :
                           t2 \in {[t EXCEPT !.node[s].color = red,
                                             !.node[t.node[s].Left].color = black]}} : TRUE
     ELSE IF /\ n = t.node[p].Right
             /\ nodeColor(t, s) = black
             /\ nodeColor(t, t.node[s].Right) = red
             /\ nodeColor(t, t.node[s].Left) = black
     THEN CHOOSE t3 \in {rotateLeft(t2, s) :
                           t2 \in {[t EXCEPT !.node[s].color = red,
                                             !.node[t.node[s].Right].color = black]}} : TRUE
     ELSE t

\* Remove, lines 142-146: replaceNode(node, child), the child of the root
\* made black, tree.size--.
removeEnd(t, n, child) ==
  LET t1 == replaceNode(t, n, child)
      t2 == IF t1.node[n].Parent = Nil /\ child # Nil
            THEN [t1 EXCEPT !.node[child].color = black]
            ELSE t1
  IN [t2 EXCEPT !.size = @ - 1]

\* `call` while a call is under way and when it has returned.
FixCall(op, pc, key, n, victimNode, child, ups, rotates, expect) ==
  [op |-> op, on |-> "redblacktree", pc |-> pc,
   key |-> IF pc = "return" THEN 0 ELSE key,
   n |-> n, node |-> victimNode, child |-> child, ups |-> ups, rotates |-> rotates,
   expect |-> expect]

\* The tree after a step; a step that returns ends the call, and the nodes
\* are collected as after every call.
StoreFix(t, pc) ==
  IF pc = "return" THEN Store(t)
  ELSE Root' = t.Root /\ size' = t.size /\ node' = t.node

FixFrame == UNCHANGED <<M, last, iterator, run, trip,
                        treebidimap, hashbidimap, avl, linkedhashmap, container>>

PutEnter(key) ==
  /\ Returned
  /\ lookup(Tree, key) # Nil \/ Handles \ LiveSet(Tree) # {}
  /\ \E r \in {putStart(Tree, key, "x")} :
     \E expect \in {Collect(Put(Tree, key, "x"))} :
       /\ StoreFix(r.t, r.pc)
       /\ call' = FixCall("Put", r.pc, key, r.n, Nil, Nil, 0, FALSE, expect)
  /\ FixFrame

PutLoopStep ==
  /\ ~Returned /\ call.pc = "loop"
  /\ \E r \in {putLoop(Tree, call.n, call.key, "x")} :
       /\ StoreFix(r.t, r.pc)
       /\ call' = FixCall("Put", r.pc, call.key, r.n, Nil, Nil, 0, FALSE, call.expect)
  /\ FixFrame

InsertCase1Step ==
  /\ ~Returned /\ call.pc = "insertCase1"
  /\ \E r \in {insertCase1Step(Tree, call.n)} :
       /\ StoreFix(r.t, r.pc)
       /\ call' = FixCall("Put", r.pc, call.key, r.n, Nil, Nil,
                          IF r.pc = "insertCase1" THEN call.ups + 1 ELSE call.ups,
                          FALSE, call.expect)
  /\ FixFrame

\* insertCase4, and insertCase5 (lines 422-431), after which the fix-up is
\* over and Put ends with tree.size++ (line 103).
InsertCaseStep ==
  /\ ~Returned /\ call.pc \in {"insertCase4", "insertCase5"}
  /\ \E r \in {IF call.pc = "insertCase4" THEN insertCase4Step(Tree, call.n)
               ELSE [t |-> [insertCase5(Tree, call.n) EXCEPT !.size = @ + 1],
                     pc |-> "return", n |-> Nil]} :
       /\ StoreFix(r.t, r.pc)
       /\ call' = FixCall("Put", r.pc, call.key, r.n, Nil, Nil, call.ups, TRUE, call.expect)
  /\ FixFrame

RemoveEnter(key) ==
  /\ Returned
  /\ \E r \in {removeStart(Tree, key)} :
     \E expect \in {Collect(Remove(Tree, key))} :
       /\ StoreFix(r.t, r.pc)
       /\ call' = FixCall("Remove", r.pc, key, r.node, r.node, r.child, 0, FALSE, expect)
  /\ FixFrame

DeleteCase1Step ==
  /\ ~Returned /\ call.pc = "deleteCase1"
  /\ \E r \in {deleteCase1Step(Tree, call.n)} :
       /\ StoreFix(r.t, r.pc)
       /\ call' = FixCall("Remove", r.pc, call.key, r.n, call.node, call.child,
                          IF r.pc = "deleteCase1" THEN call.ups + 1 ELSE call.ups,
                          FALSE, call.expect)
  /\ FixFrame

\* deleteCase4 and deleteCase5, and deleteCase6 (lines 512-527), after which
\* the fix-up is over.
DeleteCaseStep ==
  /\ ~Returned /\ call.pc \in {"deleteCase4", "deleteCase5", "deleteCase6"}
  /\ \E r \in {IF call.pc = "deleteCase4" THEN deleteCase4Step(Tree, call.n)
               ELSE IF call.pc = "deleteCase5"
               THEN [t |-> deleteCase5Step(Tree, call.n), pc |-> "deleteCase6", n |-> call.n]
               ELSE [t |-> deleteCase6(Tree, call.n), pc |-> "replaceNode", n |-> Nil]} :
       /\ StoreFix(r.t, r.pc)
       /\ call' = FixCall("Remove", r.pc, call.key, r.n, call.node, call.child,
                          call.ups, TRUE, call.expect)
  /\ FixFrame

ReplaceNodeStep ==
  /\ ~Returned /\ call.pc = "replaceNode"
  /\ \E t \in {removeEnd(Tree, call.node, call.child)} : StoreFix(t, "return")
  /\ call' = FixCall("Remove", "return", call.key, Nil, Nil, Nil, call.ups, call.rotates, call.expect)
  /\ FixFrame

\* The steps inside a call.
FixSteps ==
  \/ PutLoopStep
  \/ InsertCase1Step
  \/ InsertCaseStep
  \/ DeleteCase1Step
  \/ DeleteCaseStep
  \/ ReplaceNodeStep

NextFix ==
  \/ \E key \in FixKeySet : PutEnter(key)
  \/ \E key \in FixKeySet : RemoveEnter(key)
  \/ PutLoopStep
  \/ InsertCase1Step
  \/ InsertCaseStep
  \/ DeleteCase1Step
  \/ DeleteCaseStep
  \/ ReplaceNodeStep

SpecFix == Init /\ [][NextFix]_vars

\* Nothing is called in the engine that could suspend a call: a call that is
\* under way goes on.
SpecFixFair == SpecFix /\ WF_vars(FixSteps)

\* A step of a call under way: the descent loop goes to a child of the node
\* it is at, and insertCase1 and deleteCase1 are called again only on a node
\* nearer to the root (the grandparent, the parent) in a tree whose shape the
\* step has not changed; a fix-up that is not called again was at the root,
\* or at a node with a black parent, or ended in the cases that rotate.
C31_Closer ==
  ~Returned /\ ~Returned'
  => /\ call.pc = "loop" /\ call'.pc = "loop"
        => /\ call'.n \in {node[call.n].Left, node[call.n].Right} \ {Nil}
           /\ Comparator(call.key, node[call.n].Key) # 0
     /\ call.pc = "loop" /\ call'.pc = "insertCase1"
        => /\ node'[call'.n].Parent = call.n
           /\ call'.n \notin Reachable
           /\ IF Comparator(call.key, node[call.n].Key) < 0
              THEN node[call.n].Left = Nil /\ node'[call.n].Left = call'.n
              ELSE node[call.n].Right = Nil /\ node'[call.n].Right = call'.n
     /\ call.pc = "insertCase1" /\ call'.pc = "insertCase1"
        => /\ call'.n = grandparent(Tree, call.n)
           /\ Depth(Tree', call'.n) = Depth(Tree, call.n) - 2
           /\ call'.ups = call.ups + 1
     /\ call.pc = "deleteCase1" /\ call'.pc = "deleteCase1"
        => /\ call'.n = node[call.n].Parent
           /\ Depth(Tree', call'.n) = Depth(Tree, call.n) - 1
           /\ call'.ups = call.ups + 1
     /\ call.pc = "deleteCase1" /\ call'.pc = "replaceNode"
        => node[call.n].Parent = Nil
     /\ call.pc = "deleteCase1" /\ call'.pc = "deleteCase4"
        => \/ nodeColor(Tree, sibling(Tree, call.n)) = red
           \/ nodeColor(Tree, node[call.n].Parent) = red
           \/ nodeColor(Tree, node[sibling(Tree, call.n)].Left) = red
           \/ nodeColor(Tree, node[sibling(Tree, call.n)].Right) = red

\* The fix-up of Put that returns was at the root or at a black parent; the
\* one that goes on to insertCase4 (the cases that rotate) was at a red
\* parent with a black uncle, and it is not called again.
C31_InsertStops ==
  /\ ~Returned /\ call.pc = "insertCase1" /\ Returned'
     => \/ node[call.n].Parent = Nil
        \/ nodeColor(Tree, node[call.n].Parent) = black
  /\ ~Returned /\ call.pc = "insertCase1" /\ ~Returned' /\ call'.pc = "insertCase4"
     => /\ nodeColor(Tree, node[call.n].Parent) = red
        /\ nodeColor(Tree, uncle(Tree, call.n)) = black
  /\ ~Returned /\ call.pc \in {"insertCase4", "insertCase5", "deleteCase4",
                                "deleteCase5", "deleteCase6", "replaceNode"}
     => Returned' \/ call'.pc \notin {"loop", "insertCase1", "deleteCase1"}

\* C31: every Put and every Remove returns, with the tree that Put and
\* Remove give when applied in one go; on the way the fix-ups only move
\* towards the root and the descent loop only moves down.
C31_Terminates ==
  /\ ~Returned ~> Returned
  /\ [](call.op # "New" /\ Returned => Tree = call.expect)
  /\ [][C31_Closer]_vars
  /\ [][C31_InsertStops]_vars

\* A Put of a sixth or a seventh key has returned whose fix-up was called
\* again on the grandparent and stopped there without a rotation; there is a
\* red node with two children below the black root.
C31_Witness ==
  /\ call.op = "Put" /\ Returned
  /\ call.ups = 1 /\ ~call.rotates
  /\ size >= 6
  /\ node[Root].color = black
  /\ \E n \in Reachable : node[n].color = red /\ node[n].Parent # Nil
                           /\ node[n].Left # Nil /\ node[n].Right # Nil

-----------------------------------------------------------------------------
\* C32: a Put into an empty tree makes the new node the root, black, with no
\* parent and no child, and the size 1.
C32_EmptyPutStep ==
  Root = Nil /\ last'.op = "Put"
  => /\ Root' # Nil
     /\ size' = 1
     /\ Reachable' = {Root'}
     /\ node'[Root'].color = black
     /\ node'[Root'].Parent = Nil
     /\ node'[Root'].Left = Nil
     /\ node'[Root'].Right = Nil
     /\ DOMAIN M' = {node'[Root'].Key}
     /\ M'[node'[Root'].Key] = node'[Root'].Value

C32_EmptyPut == [][C32_EmptyPutStep]_vars

\* A tree of one node, just put into the empty tree.
C32_Witness ==
  /\ last.op = "Put" /\ ~last.found
  /\ size = 1 /\ Root # Nil
  /\ node[Root].color = black

\* The nodes of a tree record that its root reaches.
ReachableIn(t) == Below(t, {t.Root} \ {Nil})

\* C33: Remove(k) takes exactly one node out of the tree, one that had at most
\* one child, and that child (or nil) is where the node was. When the node of
\* k has two children the node taken out is the one of the greatest key of
\* its left subtree, whose key and value the node of k holds afterwards,
\* staying in the tree.
C33_Unlinks ==
  \A k \in StoredKeys :
    LET n == lookup(Tree, k)
        t1 == Remove(Tree, k)
        two == node[n].Left # Nil /\ node[n].Right # Nil
    IN /\ ReachableIn(t1) \subseteq Reachable
       /\ Cardinality(Reachable \ ReachableIn(t1)) = 1
       /\ \A u \in Reachable \ ReachableIn(t1) :
            LET child == IF node[u].Right = Nil THEN node[u].Left ELSE node[u].Right
                p == node[u].Parent
            IN /\ node[u].Left = Nil \/ node[u].Right = Nil
               /\ IF p = Nil THEN t1.Root = child
                  ELSE IF u = node[p].Left THEN t1.node[p].Left = child
                  ELSE t1.node[p].Right = child
               /\ child # Nil => t1.node[child].Parent = p
               /\ IF two
                  THEN /\ u # n
                       /\ u \in Below(Tree, {node[n].Left})
                       /\ \A m \in Below(Tree, {node[n].Left}) : node[m].Key <= node[u].Key
                       /\ t1.node[n].Key = node[u].Key
                       /\ t1.node[n].Value = node[u].Value
                  ELSE u = n

\* A Remove has just taken the predecessor's node out in place of a node with
\* two children, and the tree still has a node with two children whose
\* predecessor is not its left child.
C33_Witness ==
  /\ last.op = "Remove" /\ last.children = 2
  /\ \E n \in Reachable :
       /\ node[n].Left # Nil /\ node[n].Right # Nil
       /\ node[node[n].Left].Right # Nil

\* C34: the root has no parent, every child of a node of the tree has that
\* node as its parent, and no node of the tree refers to a node outside it.
C34_ParentLinks ==
  /\ Root # Nil => node[Root].Parent = Nil
  /\ \A n \in Reachable :
       /\ node[n].Left # Nil => node[node[n].Left].Parent = n
       /\ node[n].Right # Nil => node[node[n].Right].Parent = n
       /\ {node[n].Left, node[n].Right, node[n].Parent} \ {Nil} \subseteq Reachable

\* After a Remove whose fix-up ran, in a tree of three levels: a node below
\* the root has a child, and the root has two.
C34_Witness ==
  /\ last.op = "Remove" /\ last.fixup
  /\ Root # Nil
  /\ node[Root].Left # Nil /\ node[Root].Right # Nil
  /\ \E n \in Reachable \ {Root} :
       \E c \in {node[n].Left, node[n].Right} \ {Nil} : node[c].Parent = n

\* C35: on a tree that does not change, Next then Prev leaves the iterator
\* where it was (position and node) unless it was one-past-the-end, and Prev
\* then Next leaves it where it was unless it was one-before-first.
C35_NextPrev ==
  /\ iterator.position # end
     => IteratorPrev(Tree, IteratorNext(Tree, iterator).it).it = iterator
  /\ iterator.position # begin
     => IteratorNext(Tree, IteratorPrev(Tree, iterator).it).it = iterator

\* The iterator has moved by Next onto the last of three keys or more: a Next
\* from here ends the traversal and a Prev after it comes back.
C35_Witness ==
  /\ last.op = "Next" /\ last.ok
  /\ size >= 3
  /\ iterator.node = Right(Tree)
  /\ IteratorNext(Tree, iterator).it.position = end
  /\ IteratorPrev(Tree, IteratorNext(Tree, iterator).it).ok

-----------------------------------------------------------------------------
\* The AVL tree and the red-black tree side by side: the queries of the AVL
\* tree, and the same calls made on both trees.

\* Under SpecBoth the keys are 0..MaxBothKey and a Put of a key up to
\* MaxBothValueKey chooses between two values.
MaxBothKey == 4
MaxBothValueKey == 1
BothKeySet == 0..MaxBothKey
BothValueSet(key) == IF key <= MaxBothValueKey THEN ValueSet ELSE {"x"}

\* The keys queried: those of BothKeySet, one below and one above.
BothQuerySet == (0 - 1)..(MaxBothKey + 1)

\* avltree: func (t *Tree) Empty() bool
avlEmpty(t) == t.size = 0

\* avltree: func (t *Tree) Size() int
avlSize(t) == t.size

\* avltree: func (t *Tree) Clear()
avlClear(t) == [t EXCEPT !.Root = Nil, !.size = 0]

\* avltree: func (t *Tree) bottom(d int) *Node. Its loop goes down along
\* Children[d], as the descent of walk1(d ^ 1) does.
bottom(t, d) == IF t.Root = Nil THEN Nil ELSE walkDown(t, t.Root, flip(d))

\* avltree: func (t *Tree) Left() *Node
avlLeft(t) == bottom(t, 0)

\* avltree: func (t *Tree) Right() *Node
avlRight(t) == bottom(t, 1)

\* Mutant: the first candidate met on the way down is kept, not the last.
RECURSIVE avlFloorLoop_firstKept(_, _, _, _, _)
avlFloorLoop_firstKept(t, n, key, floor, found) ==
  IF n = Nil
  THEN IF found THEN [node |-> floor, found |-> TRUE] ELSE [node |-> Nil, found |-> FALSE]
  ELSE LET c == Comparator(key, t.node[n].Key)
       IN IF c = 0 THEN [node |-> n, found |-> TRUE]
          ELSE IF c < 0 THEN avlFloorLoop_firstKept(t, t.node[n].Children[1], key, floor, found)
          ELSE avlFloorLoop_firstKept(t, t.node[n].Children[2], key,
                                      IF found THEN floor ELSE n, TRUE)

\* The loop of the AVL tree's Floor: `floor` and `found` are its named
\* results so far.
RECURSIVE avlFloorLoop(_, _, _, _, _)
avlFloorLoop(t, n, key, floor, found) ==
  IF n = Nil
  THEN IF found THEN [node |-> floor, found |-> TRUE] ELSE [node |-> Nil, found |-> FALSE]
  ELSE LET c == Comparator(key, t.node[n].Key)
       IN IF c = 0 THEN [node |-> n, found |-> TRUE]
          ELSE IF c < 0 THEN avlFloorLoop(t, t.node[n].Children[1], key, floor, found)
          ELSE avlFloorLoop(t, t.node[n].Children[2], key, n, TRUE)

\* avltree: func (t *Tree) Floor(key T) (floor *Node, found bool)
avlFloor(t, key) == avlFloorLoop(t, t.Root, key, Nil, FALSE)

\* The loop of the AVL tree's Ceiling.
RECURSIVE avlCeilingLoop(_, _, _, _, _)
avlCeilingLoop(t, n, key, floor, found) ==
  IF n = Nil
  THEN IF found THEN [node |-> floor, found |-> TRUE] ELSE [node |-> Nil, found |-> FALSE]
  ELSE LET c == Comparator(key, t.node[n].Key)
       IN IF c = 0 THEN [node |-> n, found |-> TRUE]
          ELSE IF c < 0 THEN avlCeilingLoop(t, t.node[n].Children[1], key, n, TRUE)
          ELSE avlCeilingLoop(t, t.node[n].Children[2], key, floor, found)

\* avltree: func (t *Tree) Ceiling(key T) (floor *Node, found bool)
avlCeiling(t, key) == avlCeilingLoop(t, t.Root, key, Nil, FALSE)

\* Next of the AVL tree's iterator: from one-before-first to the tree's
\* Left(), from a node to its Next(), and one-past-the-end when that is nil.
avlIteratorNext(t, it) ==
  LET n == IF it.position = begin THEN avlLeft(t)
           ELSE IF it.position = between THEN avlNext(t, it.node)
           ELSE Nil
  IN IF n = Nil THEN [it |-> [node |-> Nil, position |-> end], ok |-> FALSE]
     ELSE [it |-> [node |-> n, position |-> between], ok |-> TRUE]

\* The loop of the AVL tree's Keys: keys[i] = it.Key() for as long as
\* it.Next(); storing past the end of the slice is a panic.
RECURSIVE avlKeysLoop(_, _, _, _)
avlKeysLoop(t, it, i, keys) ==
  LET r == avlIteratorNext(t, it)
  IN IF ~r.ok THEN [keys |-> keys, panic |-> FALSE]
     ELSE IF i >= Len(keys) THEN [keys |-> keys, panic |-> TRUE]
     ELSE avlKeysLoop(t, r.it, i + 1, [keys EXCEPT ![i + 1] = t.node[r.it.node].Key])

\* avltree: func (t *Tree) Keys() []T
avlKeys(t) == avlKeysLoop(t, [node |-> Nil, position |-> begin], 0, [j \in 1..t.size |-> 0])

RECURSIVE avlValuesLoop(_, _, _, _)
avlValuesLoop(t, it, i, values) ==
  LET r == avlIteratorNext(t, it)
  IN IF ~r.ok THEN [values |-> values, panic |-> FALSE]
     ELSE IF i >= Len(values) THEN [values |-> values, panic |-> TRUE]
     ELSE avlValuesLoop(t, r.it, i + 1, [values EXCEPT ![i + 1] = t.node[r.it.node].Value])

\* avltree: func (t *Tree) Values() []P
avlValues(t) ==
  avlValuesLoop(t, [node |-> Nil, position |-> begin], 0, [j \in 1..t.size |-> AnyEmpty])

\* The same call on both trees.
BothCall(op, key) ==
  [op |-> op, on |-> "both", key |-> key,
   children |-> IF lookup(Tree, key) = Nil THEN 0
                ELSE Cardinality({node[lookup(Tree, key)].Left,
                                  node[lookup(Tree, key)].Right} \ {Nil})]

\* The calls made on both trees: Put of a key and a value, Remove of a key,
\* Clear.
BothCalls ==
  UNION {{[op |-> "Put", key |-> key, value |-> value] : value \in BothValueSet(key)}
           : key \in BothKeySet}
    \cup {[op |-> "Remove", key |-> key, value |-> "x"] : key \in BothKeySet}
    \cup {[op |-> "Clear", key |-> 0, value |-> "x"]}

\* One call on the AVL tree.
avlCall(t, c) ==
  IF c.op = "Put" THEN avlPut(t, c.key, c.value)
  ELSE IF c.op = "Remove" THEN avlRemove(t, c.key)
  ELSE avlClear(t)

\* One call, made on the red-black tree and on the AVL tree.
BothStep(c) ==
  /\ c.op = "Put" => lookup(Tree, c.key) # Nil \/ Handles \ LiveSet(Tree) # {}
  /\ M' = IF c.op = "Put"
          THEN [k \in DOMAIN M \cup {c.key} |-> IF k = c.key THEN c.value ELSE M[k]]
          ELSE IF c.op = "Remove" THEN [k \in DOMAIN M \ {c.key} |-> M[k]]
          ELSE EmptyMap
  /\ last' = IF c.op = "Remove" THEN RemoveLast(c.key)
             ELSE [op |-> c.op, found |-> c.op = "Put" /\ lookup(Tree, c.key) # Nil,
                   children |-> 0, fixup |-> FALSE, redChild |-> FALSE,
                   from |-> iterator.position, ok |-> FALSE]
  /\ \E t1 \in {treeCall(Tree, c)} : Store(t1)
  /\ \E a1 \in {avlCall(avl, c)} : avl' = avlCollect(a1)
  /\ call' = BothCall(c.op, c.key)
  /\ run' = RunAt(iterator.position)
  /\ UNCHANGED <<iterator, trip, treebidimap, hashbidimap, linkedhashmap, container>>

NextBoth == \E c \in BothCalls : BothStep(c)

SpecBoth == Init /\ [][NextBoth]_vars

\* The key of a node of the red-black tree and of a node of the AVL tree, or
\* no key for no node.
KeyAt(n) == IF n = Nil THEN << >> ELSE <<node[n].Key>>
avlKeyAt(n) == IF n = Nil THEN << >> ELSE <<avl.node[n].Key>>

\* C39: after the same Put, Remove and Clear calls the AVL tree and the
\* red-black tree answer alike: Size, Empty, Get of every key, Keys, Values,
\* and the keys of Left, Right, Floor and Ceiling.
C39_Equivalent ==
  /\ avlSize(avl) = Size(Tree)
  /\ avlEmpty(avl) = Empty(Tree)
  /\ avlKeys(avl) = Keys(Tree)
  /\ avlValues(avl) = Values(Tree)
  /\ avlKeyAt(avlLeft(avl)) = KeyAt(Left(Tree))
  /\ avlKeyAt(avlRight(avl)) = KeyAt(Right(Tree))
  /\ \A k \in BothQuerySet :
       /\ avlGet(avl, k) = Get(Tree, k)
       /\ avlFloor(avl, k).found = Floor(Tree, k).found
       /\ avlKeyAt(avlFloor(avl, k).node) = KeyAt(Floor(Tree, k).node)
       /\ avlCeiling(avl, k).found = Ceiling(Tree, k).found
       /\ avlKeyAt(avlCeiling(avl, k).node) = KeyAt(Ceiling(Tree, k).node)

\* A Remove of a key whose node had two children has left the two trees with
\* different roots and the same four keys, of which the values differ.
C39_Witness ==
  /\ call.on = "both" /\ call.op = "Remove" /\ call.children = 2
  /\ size = 4
  /\ node[Root].Key # avl.node[avl.Root].Key
  /\ Cardinality({M[k] : k \in DOMAIN M}) = 2

-----------------------------------------------------------------------------
\* Every call on the iterator and every call on the tree, in any order.

NextAny ==
  \/ \E key \in UnderKeySet : PutUnder(key, "x")
  \/ \E key \in UnderKeySet : RemoveUnder(key)
  \/ ClearUnder
  \/ IteratorStep
  \/ NextStep
  \/ PrevStep
  \/ BeginStep
  \/ EndStep
  \/ FirstStep
  \/ LastStep

SpecAny == Init /\ [][NextAny]_vars

\* A call on the tree made while the iterator holds no node leaves the
\* iterator as it is.
C36_Resting ==
  iterator.node = Nil /\ last'.op \in {"Put", "Remove", "Clear"} => iterator' = iterator

\* C36: the iterator holds a node exactly when its position is `between`;
\* one that is one-before-first or one-past-the-end is not changed by the
\* calls on the tree, and its next Next or Prev goes to the least or the
\* greatest key the tree has then.
C36_Sentinel ==
  /\ [](iterator.position \in {begin, end} <=> iterator.node = Nil)
  /\ [](iterator.position = begin
          => IteratorNext(Tree, iterator).it.node = Left(Tree))
  /\ [](iterator.position = end
          => IteratorPrev(Tree, iterator).it.node = Right(Tree))
  /\ [][C36_Resting]_vars

\* A Put was made while the iterator, which had been on a node, was
\* one-past-the-end; the tree has two keys or more.
C36_Witness ==
  /\ last.op = "Put" /\ last.from = end
  /\ iterator.position = end /\ iterator.node = Nil
  /\ size >= 2
  /\ IteratorPrev(Tree, iterator).ok

\* The least element of a non-empty set of keys.
Least(S) == CHOOSE k \in S : \A j \in S : k <= j

\* The keys of the tree above a key.
Above(k) == {j \in StoredKeys : j > k}

\* A Put leaves an iterator that is on a node of the tree on that node, the
\* node in the tree and its key as it was.
C37_PutKeeps ==
  /\ last'.op = "Put"
  /\ iterator.position = between /\ iterator.node \in Reachable
  => /\ iterator'.position = between
     /\ iterator'.node \in Reachable'
     /\ node'[iterator'.node].Key = node[iterator.node].Key
     /\ StoredKeys \subseteq StoredKeys'

\* C37: Puts made while the iterator is on a node of key k leave it on that
\* node, and Next then goes to the least key above k that the tree has by
\* then, or one-past-the-end when there is none.
C37_PutUnderNext ==
  /\ [](iterator.position = between /\ iterator.node \in Reachable
          => LET r == IteratorNext(Tree, iterator)
                 above == Above(node[iterator.node].Key)
             IN IF above = {}
                THEN ~r.ok /\ r.it.position = end /\ r.it.node = Nil
                ELSE /\ r.ok /\ r.it.position = between
                     /\ r.it.node \in Reachable
                     /\ node[r.it.node].Key = Least(above))
  /\ [][C37_PutKeeps]_vars

\* The iterator was on the least key when the two other keys were put, the
\* second with a rotation at the iterator's node, which has a parent now.
C37_Witness ==
  /\ last.op = "Put" /\ ~last.found /\ last.from = between
  /\ iterator.position = between /\ iterator.node \in Reachable
  /\ size = 3
  /\ iterator.node = Left(Tree)
  /\ node[iterator.node].Parent = Root
  /\ run.fwd = <<node[iterator.node].Key>>

-----------------------------------------------------------------------------
\* The key the iterator is on is removed while the traversal goes on: after
\* the Puts that build a tree, Next and Remove(it.Key()) are called in any
\* order that calls Remove after a Next that returned true. `call` holds the
\* last call, the keys put (all), whether the calls made since the Puts are
\* those of the loop `for it.Next() { tree.Remove(it.Key()) }` (loop), the
\* keys that the Next calls of that loop returned (visited), and the number
\* of children that the node of the key removed had (children), which the
\* Next that follows the Remove keeps.

\* Under SpecDrain the keys are 0..MaxDrainKey.
MaxDrainKey == 6
DrainKeySet == 0..MaxDrainKey

DrainCall(op, key, ok, children, loop, visited, all) ==
  [op |-> op, on |-> "drain", key |-> key, ok |-> ok, children |-> children,
   loop |-> loop, visited |-> visited, all |-> all]

DrainPut(key) ==
  /\ call.op \in {"New", "Put"}
  /\ PutCall(key, "x")
  /\ call' = DrainCall("Put", 0, FALSE, 0, TRUE, << >>, DOMAIN M \cup {key})
  /\ UNCHANGED <<iterator, run, trip, treebidimap, hashbidimap, avl, linkedhashmap, container>>

\* Whether the calls made so far are those of the loop, and what it has
\* visited.
DrainLoop == call.op = "New" \/ (call.loop /\ call.op # "Next")
DrainVisited == IF call.op = "New" THEN << >> ELSE call.visited
DrainAll == IF call.op = "New" THEN {} ELSE call.all

\* it.Next()
DrainNext ==
  /\ iterator.position # end
  /\ \E r \in {IteratorNext(Tree, iterator)} :
       /\ iterator' = r.it
       /\ last' = IteratorCall("Next", r.ok)
       /\ call' = DrainCall("Next", IF r.ok THEN node[r.it.node].Key ELSE 0, r.ok,
                            IF call.op = "Remove" THEN call.children ELSE 0,
                            DrainLoop,
                            IF DrainLoop /\ r.ok
                            THEN Append(DrainVisited, node[r.it.node].Key)
                            ELSE IF DrainLoop THEN DrainVisited ELSE << >>,
                            DrainAll)
  /\ UNCHANGED <<Root, size, node, M, run, trip,
                 treebidimap, hashbidimap, avl, linkedhashmap, container>>

\* tree.Remove(it.Key()), after a Next that returned true.
DrainRemove ==
  /\ call.op = "Next" /\ call.ok
  /\ \E key \in {IteratorKey(Tree, iterator).key} :
       /\ M' = [k \in DOMAIN M \ {key} |-> M[k]]
       /\ last' = RemoveLast(key)
       /\ call' = DrainCall("Remove", key, FALSE,
                            Cardinality({node[iterator.node].Left,
                                         node[iterator.node].Right} \ {Nil}),
                            call.loop, call.visited, call.all)
       /\ StoreUnder(Remove(Tree, key))
  /\ UNCHANGED <<run, trip, treebidimap, hashbidimap, avl, linkedhashmap, container>>

NextDrain ==
  \/ \E key \in DrainKeySet : DrainPut(key)
  \/ DrainNext
  \/ DrainRemove

SpecDrain == Init /\ [][NextDrain]_vars

\* The Next that follows the Remove of the key the iterator was on goes to
\* the least key above it that is left, or one-past-the-end.
C38_NextAfterRemove ==
  call.op = "Remove" /\ call'.op = "Next"
  => IF Above(call.key) = {}
     THEN ~call'.ok /\ iterator'.position = end /\ iterator'.node = Nil
     ELSE /\ call'.ok /\ iterator'.position = between
          /\ iterator'.node \in Reachable
          /\ node[iterator'.node].Key = Least(Above(call.key))

\* The Remove of the key the iterator is on takes that key out and no other.
C38_RemoveCurrent ==
  call'.op = "Remove" => StoredKeys' = StoredKeys \ {call'.key} /\ call'.key \in StoredKeys

\* C38: after Remove(k) with the iterator on k, whatever the number of
\* children of k's node, Next goes to the least key above k that is left or
\* one-past-the-end; the loop `for it.Next() { tree.Remove(it.Key()) }` ends
\* with the tree empty, having visited every key once in ascending order.
C38_RemoveUnderNext ==
  /\ [][C38_NextAfterRemove]_vars
  /\ [][C38_RemoveCurrent]_vars
  /\ [](call.op = "Next" /\ ~call.ok /\ call.loop
          => /\ Root = Nil /\ size = 0
             /\ Len(call.visited) = Cardinality(call.all)
             /\ {call.visited[i] : i \in 1..Len(call.visited)} = call.all
             /\ \A i \in 1..(Len(call.visited) - 1) : call.visited[i] < call.visited[i + 1])

\* The Remove of a key whose node had two children, with the iterator on it,
\* was followed by a Next that went to a key of the tree, which is not the
\* greatest one.
C38_Witness ==
  /\ call.op = "Next" /\ call.ok /\ call.children = 2
  /\ iterator.position = between /\ iterator.node \in Reachable
  /\ Above(call.key) # {}

====
